---- MODULE Spec2Model ----
(***************************************************************************)
(* Model of the Quoridor rules engine (src/src/game_logic.py): GameState,  *)
(* QuoridorGame and its operations reset, move_player, place_wall and      *)
(* undo_move, with the queries they call.                                  *)
(***************************************************************************)
EXTENDS Integers, Sequences, FiniteSets, TLC

(* Bounds of the model.  The program plays on a 9x9 board with 10 walls    *)
(* per player; the model keeps the code size-parametric and checks it on a *)
(* smaller board, a smaller wall budget and a bounded undo history: once   *)
(* move_history holds MaxHist records only undo_move and reset are called. *)
BoardSize == 3
WallBudget == 1
MaxHist == 3

VARIABLES player1_pos, player2_pos, player1_walls, player2_walls, walls,
          current_player, game_over, winner, move_history, last_call, prev,
          gui

state == <<player1_pos, player2_pos, player1_walls, player2_walls, walls,
           current_player, game_over, winner>>
vars == <<player1_pos, player2_pos, player1_walls, player2_walls, walls,
          current_player, game_over, winner, move_history, last_call, prev,
          gui>>

(* ---------------- value types ---------------- *)
PLAYER1 == "PLAYER1"
PLAYER2 == "PLAYER2"
Player == {PLAYER1, PLAYER2}
None == "None"
HORIZONTAL == "H"
VERTICAL == "V"
WallOrientation == {HORIZONTAL, VERTICAL}

Wall(row, col, orientation) == [row |-> row, col |-> col, orientation |-> orientation]

abs(x) == IF x < 0 THEN -x ELSE x

(* ---------------- inputs the callers may pass ---------------- *)
(* every cell of the board and one position beyond each edge *)
InputPos ==
    ((0 .. BoardSize - 1) \X (0 .. BoardSize - 1))
    \cup {<<-1, 0>>, <<BoardSize, 0>>, <<0, -1>>, <<0, BoardSize>>}
(* every wall slot and, in both orientations, one anchor beyond each edge *)
InputWall ==
    [row : 0 .. BoardSize - 2, col : 0 .. BoardSize - 2, orientation : WallOrientation]
    \cup [row : {-1, BoardSize - 1}, col : {0}, orientation : WallOrientation]
    \cup [row : {0}, col : {-1, BoardSize - 1}, orientation : WallOrientation]

(* ---------------- GameState defaults ---------------- *)
StartPos1 == <<BoardSize - 1, BoardSize \div 2>>
StartPos2 == <<0, BoardSize \div 2>>

(* ---------------- queries ---------------- *)
(* is_valid_position that takes the index BoardSize for a row or column *)
is_valid_position_inclusive(row, col) ==
    0 <= row /\ row <= BoardSize /\ 0 <= col /\ col <= BoardSize

(* is_valid_position that leaves out the border rows and columns *)
is_valid_position_interior(row, col) ==
    0 < row /\ row < BoardSize - 1 /\ 0 < col /\ col < BoardSize - 1

is_valid_position(row, col) ==
    0 <= row /\ row < BoardSize /\ 0 <= col /\ col < BoardSize

(* is_wall_between reads self.state.walls; W is that set (can_place_wall   *)
(* swaps a test state in while it searches).                               *)
(* is_wall_between that looks for the second Horizontal anchor on the wrong side *)
is_wall_between_wrong_side(W, pos1, pos2) ==
    LET r1 == pos1[1]
        c1 == pos1[2]
        r2 == pos2[1]
        c2 == pos2[2]
        vert == IF c1 = c2
                THEN LET wall_row == IF r2 < r1 THEN r1 - 1 ELSE r1
                     IN \E wall \in W :
                            /\ wall.orientation = HORIZONTAL
                            /\ wall.row = wall_row
                            /\ (wall.col = c1 \/ wall.col = c1 + 1)
                ELSE FALSE
        horiz == IF r1 = r2
                 THEN LET wall_col == IF c2 < c1 THEN c1 - 1 ELSE c1
                      IN \E wall \in W :
                             /\ wall.orientation = VERTICAL
                             /\ wall.col = wall_col
                             /\ (wall.row = r1 \/ wall.row = r1 - 1)
                 ELSE FALSE
    IN vert \/ horiz

is_wall_between(W, pos1, pos2) ==
    LET r1 == pos1[1]
        c1 == pos1[2]
        r2 == pos2[1]
        c2 == pos2[2]
        vert == IF c1 = c2
                THEN LET wall_row == IF r2 < r1 THEN r1 - 1 ELSE r1
                     IN \E wall \in W :
                            /\ wall.orientation = HORIZONTAL
                            /\ wall.row = wall_row
                            /\ (wall.col = c1 \/ wall.col = c1 - 1)
                ELSE FALSE
        horiz == IF r1 = r2
                 THEN LET wall_col == IF c2 < c1 THEN c1 - 1 ELSE c1
                      IN \E wall \in W :
                             /\ wall.orientation = VERTICAL
                             /\ wall.col = wall_col
                             /\ (wall.row = r1 \/ wall.row = r1 - 1)
                 ELSE FALSE
    IN vert \/ horiz

directions == << <<-1, 0>>, <<1, 0>>, <<0, -1>>, <<0, 1>> >>

(* The destinations one direction of the scan adds, in the order added.    *)
(* get_valid_moves' loop body with the side-steps not tested against the board *)
moves_in_direction_unchecked_diag(W, current_pos, opponent_pos, d) ==
    LET dr == d[1]
        dc == d[2]
        new_row == current_pos[1] + dr
        new_col == current_pos[2] + dc
        jump_row == new_row + dr
        jump_col == new_col + dc
        diag(p) == IF ~is_wall_between(W, opponent_pos, p)
                   THEN <<p>> ELSE <<>>
    IN IF ~is_valid_position(new_row, new_col) THEN <<>>
       ELSE IF is_wall_between(W, current_pos, <<new_row, new_col>>) THEN <<>>
       ELSE IF <<new_row, new_col>> = opponent_pos
            THEN IF is_valid_position(jump_row, jump_col)
                    /\ ~is_wall_between(W, opponent_pos, <<jump_row, jump_col>>)
                 THEN << <<jump_row, jump_col>> >>
                 ELSE IF dr = 0
                      THEN diag(<<new_row - 1, new_col>>) \o diag(<<new_row + 1, new_col>>)
                      ELSE diag(<<new_row, new_col - 1>>) \o diag(<<new_row, new_col + 1>>)
            ELSE << <<new_row, new_col>> >>

(* get_valid_moves' loop body that adds the side-steps beside a free vertical jump too *)
moves_in_direction_jump_and_diag(W, current_pos, opponent_pos, d) ==
    LET dr == d[1]
        dc == d[2]
        new_row == current_pos[1] + dr
        new_col == current_pos[2] + dc
        jump_row == new_row + dr
        jump_col == new_col + dc
        diag(p) == IF is_valid_position(p[1], p[2]) /\ ~is_wall_between(W, opponent_pos, p)
                   THEN <<p>> ELSE <<>>
    IN IF ~is_valid_position(new_row, new_col) THEN <<>>
       ELSE IF is_wall_between(W, current_pos, <<new_row, new_col>>) THEN <<>>
       ELSE IF <<new_row, new_col>> = opponent_pos
            THEN IF is_valid_position(jump_row, jump_col)
                    /\ ~is_wall_between(W, opponent_pos, <<jump_row, jump_col>>)
                 THEN << <<jump_row, jump_col>> >>
                      \o (IF dr = 0 THEN <<>>
                          ELSE diag(<<new_row, new_col - 1>>) \o diag(<<new_row, new_col + 1>>))
                 ELSE IF dr = 0
                      THEN diag(<<new_row - 1, new_col>>) \o diag(<<new_row + 1, new_col>>)
                      ELSE diag(<<new_row, new_col - 1>>) \o diag(<<new_row, new_col + 1>>)
            ELSE << <<new_row, new_col>> >>

(* get_valid_moves' loop body that steps onto the opponent instead of over it *)
moves_in_direction_no_jump(W, current_pos, opponent_pos, d) ==
    LET dr == d[1]
        dc == d[2]
        new_row == current_pos[1] + dr
        new_col == current_pos[2] + dc
        jump_row == new_row + dr
        jump_col == new_col + dc
        diag(p) == IF is_valid_position(p[1], p[2]) /\ ~is_wall_between(W, opponent_pos, p)
                   THEN <<p>> ELSE <<>>
    IN IF ~is_valid_position(new_row, new_col) THEN <<>>
       ELSE IF is_wall_between(W, current_pos, <<new_row, new_col>>) THEN <<>>
       ELSE IF <<new_row, new_col>> = opponent_pos
            THEN IF is_valid_position(jump_row, jump_col)
                    /\ ~is_wall_between(W, opponent_pos, <<jump_row, jump_col>>)
                 THEN << <<new_row, new_col>> >>
                 ELSE IF dr = 0
                      THEN diag(<<new_row - 1, new_col>>) \o diag(<<new_row + 1, new_col>>)
                      ELSE diag(<<new_row, new_col - 1>>) \o diag(<<new_row, new_col + 1>>)
            ELSE << <<new_row, new_col>> >>

(* get_valid_moves' loop body with the side-step axes swapped *)
moves_in_direction_wrong_axis(W, current_pos, opponent_pos, d) ==
    LET dr == d[1]
        dc == d[2]
        new_row == current_pos[1] + dr
        new_col == current_pos[2] + dc
        jump_row == new_row + dr
        jump_col == new_col + dc
        diag(p) == IF is_valid_position(p[1], p[2]) /\ ~is_wall_between(W, opponent_pos, p)
                   THEN <<p>> ELSE <<>>
    IN IF ~is_valid_position(new_row, new_col) THEN <<>>
       ELSE IF is_wall_between(W, current_pos, <<new_row, new_col>>) THEN <<>>
       ELSE IF <<new_row, new_col>> = opponent_pos
            THEN IF is_valid_position(jump_row, jump_col)
                    /\ ~is_wall_between(W, opponent_pos, <<jump_row, jump_col>>)
                 THEN << <<jump_row, jump_col>> >>
                 ELSE IF dr # 0
                      THEN diag(<<new_row - 1, new_col>>) \o diag(<<new_row + 1, new_col>>)
                      ELSE diag(<<new_row, new_col - 1>>) \o diag(<<new_row, new_col + 1>>)
            ELSE << <<new_row, new_col>> >>

(* get_valid_moves' loop body that adds the side-steps without looking for a wall *)
moves_in_direction_diag_through_wall(W, current_pos, opponent_pos, d) ==
    LET dr == d[1]
        dc == d[2]
        new_row == current_pos[1] + dr
        new_col == current_pos[2] + dc
        jump_row == new_row + dr
        jump_col == new_col + dc
        diag(p) == IF is_valid_position(p[1], p[2])
                   THEN <<p>> ELSE <<>>
    IN IF ~is_valid_position(new_row, new_col) THEN <<>>
       ELSE IF is_wall_between(W, current_pos, <<new_row, new_col>>) THEN <<>>
       ELSE IF <<new_row, new_col>> = opponent_pos
            THEN IF is_valid_position(jump_row, jump_col)
                    /\ ~is_wall_between(W, opponent_pos, <<jump_row, jump_col>>)
                 THEN << <<jump_row, jump_col>> >>
                 ELSE IF dr = 0
                      THEN diag(<<new_row - 1, new_col>>) \o diag(<<new_row + 1, new_col>>)
                      ELSE diag(<<new_row, new_col - 1>>) \o diag(<<new_row, new_col + 1>>)
            ELSE << <<new_row, new_col>> >>

moves_in_direction(W, current_pos, opponent_pos, d) ==
    LET dr == d[1]
        dc == d[2]
        new_row == current_pos[1] + dr
        new_col == current_pos[2] + dc
        jump_row == new_row + dr
        jump_col == new_col + dc
        diag(p) == IF is_valid_position(p[1], p[2]) /\ ~is_wall_between(W, opponent_pos, p)
                   THEN <<p>> ELSE <<>>
    IN IF ~is_valid_position(new_row, new_col) THEN <<>>
       ELSE IF is_wall_between(W, current_pos, <<new_row, new_col>>) THEN <<>>
       ELSE IF <<new_row, new_col>> = opponent_pos
            THEN IF is_valid_position(jump_row, jump_col)
                    /\ ~is_wall_between(W, opponent_pos, <<jump_row, jump_col>>)
                 THEN << <<jump_row, jump_col>> >>
                 ELSE IF dr = 0
                      THEN diag(<<new_row - 1, new_col>>) \o diag(<<new_row + 1, new_col>>)
                      ELSE diag(<<new_row, new_col - 1>>) \o diag(<<new_row, new_col + 1>>)
            ELSE << <<new_row, new_col>> >>

get_valid_moves(player) ==
    LET current_pos == IF player = PLAYER1 THEN player1_pos ELSE player2_pos
        opponent_pos == IF player = PLAYER1 THEN player2_pos ELSE player1_pos
    IN moves_in_direction(walls, current_pos, opponent_pos, directions[1])
       \o moves_in_direction(walls, current_pos, opponent_pos, directions[2])
       \o moves_in_direction(walls, current_pos, opponent_pos, directions[3])
       \o moves_in_direction(walls, current_pos, opponent_pos, directions[4])

SeqToSet(s) == {s[i] : i \in 1 .. Len(s)}

goal_row(player) == IF player = PLAYER1 THEN 0 ELSE BoardSize - 1

(* The BFS loop of _has_path_to_goal: queue is the deque, visited the set. *)
(* One round pops current, returns at the goal row, and appends the        *)
(* on-board, unvisited, unwalled neighbours in the order of directions.    *)
RECURSIVE bfs_has_path(_, _, _, _)
bfs_has_path(W, queue, visited, goal) ==
    IF queue = <<>> THEN FALSE
    ELSE LET current == Head(queue)
             row == current[1]
             col == current[2]
             step(new_row, new_col) ==
                 IF ~is_valid_position(new_row, new_col) THEN <<>>
                 ELSE IF <<new_row, new_col>> \in visited THEN <<>>
                 ELSE IF is_wall_between(W, current, <<new_row, new_col>>) THEN <<>>
                 ELSE << <<new_row, new_col>> >>
             added == step(row - 1, col) \o step(row + 1, col)
                      \o step(row, col - 1) \o step(row, col + 1)
         IN IF row = goal THEN TRUE
            ELSE bfs_has_path(W, Tail(queue) \o added, visited \cup SeqToSet(added), goal)

_has_path_to_goal(W, start, player) ==
    bfs_has_path(W, <<start>>, {start}, goal_row(player))

(* float('inf'), the result when the goal row cannot be reached: a value  *)
(* above every path length (a shortest path enters a cell at most once)    *)
inf == BoardSize * BoardSize

(* The BFS loop of get_shortest_path_length: queue holds (cell, dist).     *)
RECURSIVE bfs_shortest_path(_, _, _, _)
bfs_shortest_path(W, queue, visited, goal) ==
    IF queue = <<>> THEN inf
    ELSE LET current == Head(queue)[1]
             dist == Head(queue)[2]
             row == current[1]
             col == current[2]
             step(new_row, new_col) ==
                 IF ~is_valid_position(new_row, new_col) THEN <<>>
                 ELSE IF <<new_row, new_col>> \in visited THEN <<>>
                 ELSE IF is_wall_between(W, current, <<new_row, new_col>>) THEN <<>>
                 ELSE << <<new_row, new_col>> >>
             added == step(row - 1, col) \o step(row + 1, col)
                      \o step(row, col - 1) \o step(row, col + 1)
         IN IF row = goal THEN dist
            ELSE bfs_shortest_path(W,
                     Tail(queue) \o [i \in 1 .. Len(added) |-> <<added[i], dist + 1>>],
                     visited \cup SeqToSet(added), goal)

(* get_shortest_path_length whose search starts counting at 1 *)
get_shortest_path_length_from_one(W, start, player) ==
    bfs_shortest_path(W, << <<start, 1>> >>, {start}, goal_row(player))

get_shortest_path_length(W, start, player) ==
    bfs_shortest_path(W, << <<start, 0>> >>, {start}, goal_row(player))

(* _walls_overlap with the collinear tests off by one (< 1 for <= 1) *)
_walls_overlap_strict(wall1, wall2) ==
    IF wall1.row = wall2.row /\ wall1.col = wall2.col THEN TRUE
    ELSE IF wall1.orientation = wall2.orientation
         THEN IF wall1.orientation = HORIZONTAL
              THEN wall1.row = wall2.row /\ abs(wall1.col - wall2.col) < 1
              ELSE wall1.col = wall2.col /\ abs(wall1.row - wall2.row) < 1
         ELSE LET h_wall == IF wall1.orientation = HORIZONTAL THEN wall1 ELSE wall2
                  v_wall == IF wall1.orientation = HORIZONTAL THEN wall2 ELSE wall1
              IN h_wall.row = v_wall.row /\ h_wall.col = v_wall.col

_walls_overlap(wall1, wall2) ==
    IF wall1.row = wall2.row /\ wall1.col = wall2.col THEN TRUE
    ELSE IF wall1.orientation = wall2.orientation
         THEN IF wall1.orientation = HORIZONTAL
              THEN wall1.row = wall2.row /\ abs(wall1.col - wall2.col) <= 1
              ELSE wall1.col = wall2.col /\ abs(wall1.row - wall2.row) <= 1
         ELSE LET h_wall == IF wall1.orientation = HORIZONTAL THEN wall1 ELSE wall2
                  v_wall == IF wall1.orientation = HORIZONTAL THEN wall2 ELSE wall1
              IN h_wall.row = v_wall.row /\ h_wall.col = v_wall.col

get_current_player_walls ==
    IF current_player = PLAYER1 THEN player1_walls ELSE player2_walls

(* can_place_wall that searches a path for Player1 only *)
can_place_wall_p1_only(wall) ==
    IF get_current_player_walls <= 0 THEN FALSE
    ELSE IF ~(0 <= wall.row /\ wall.row < BoardSize - 1
              /\ 0 <= wall.col /\ wall.col < BoardSize - 1) THEN FALSE
    ELSE IF wall \in walls THEN FALSE
    ELSE IF \E existing_wall \in walls : _walls_overlap(wall, existing_wall) THEN FALSE
    ELSE LET test_walls == walls \cup {wall}
             p1_has_path == _has_path_to_goal(test_walls, player1_pos, PLAYER1)
             p2_has_path == _has_path_to_goal(test_walls, player2_pos, PLAYER2)
         IN p1_has_path

(* can_place_wall with the budget test off by one (< 0 for <= 0) *)
can_place_wall_budget(wall) ==
    IF get_current_player_walls < 0 THEN FALSE
    ELSE IF ~(0 <= wall.row /\ wall.row < BoardSize - 1
              /\ 0 <= wall.col /\ wall.col < BoardSize - 1) THEN FALSE
    ELSE IF wall \in walls THEN FALSE
    ELSE IF \E existing_wall \in walls : _walls_overlap(wall, existing_wall) THEN FALSE
    ELSE LET test_walls == walls \cup {wall}
             p1_has_path == _has_path_to_goal(test_walls, player1_pos, PLAYER1)
             p2_has_path == _has_path_to_goal(test_walls, player2_pos, PLAYER2)
         IN p1_has_path /\ p2_has_path

can_place_wall(wall) ==
    IF get_current_player_walls <= 0 THEN FALSE
    ELSE IF ~(0 <= wall.row /\ wall.row < BoardSize - 1
              /\ 0 <= wall.col /\ wall.col < BoardSize - 1) THEN FALSE
    ELSE IF wall \in walls THEN FALSE
    ELSE IF \E existing_wall \in walls : _walls_overlap(wall, existing_wall) THEN FALSE
    ELSE LET test_walls == walls \cup {wall}
             p1_has_path == _has_path_to_goal(test_walls, player1_pos, PLAYER1)
             p2_has_path == _has_path_to_goal(test_walls, player2_pos, PLAYER2)
         IN p1_has_path /\ p2_has_path

(* the slots get_all_valid_walls enumerates, in its order: rows, then      *)
(* columns, then the orientations of WallOrientation                       *)
wall_slots(rows) ==
    [i \in 1 .. 2 * rows * (BoardSize - 1) |->
        [row |-> (i - 1) \div (2 * (BoardSize - 1)),
         col |-> ((i - 1) \div 2) % (BoardSize - 1),
         orientation |-> IF (i - 1) % 2 = 0 THEN HORIZONTAL ELSE VERTICAL]]

(* get_all_valid_walls whose row loop stops one row short *)
get_all_valid_walls_short_rows ==
    IF get_current_player_walls <= 0 THEN <<>>
    ELSE SelectSeq(wall_slots(BoardSize - 2), can_place_wall)

get_all_valid_walls ==
    IF get_current_player_walls <= 0 THEN <<>>
    ELSE SelectSeq(wall_slots(BoardSize - 1), can_place_wall)

(* ---------------- operations ---------------- *)
other(player) == IF player = PLAYER1 THEN PLAYER2 ELSE PLAYER1

(* _check_win, on the positions the move has just written *)
_check_win(p1, p2, field) ==
    IF p1[1] = 0
    THEN IF field = "game_over" THEN TRUE ELSE PLAYER1
    ELSE IF p2[1] = BoardSize - 1
         THEN IF field = "game_over" THEN TRUE ELSE PLAYER2
         ELSE IF field = "game_over" THEN game_over ELSE winner

Call(op, ok) == [op |-> op, ok |-> ok]

Init ==
    /\ player1_pos = StartPos1
    /\ player2_pos = StartPos2
    /\ player1_walls = WallBudget
    /\ player2_walls = WallBudget
    /\ walls = {}
    /\ current_player = PLAYER1
    /\ game_over = FALSE
    /\ winner = None
    /\ move_history = <<>>
    /\ last_call = Call("init", TRUE)
    /\ prev = state
    /\ gui = [current_screen |-> "MENU", game_mode |-> None, ai |-> None,
              ai_thinking |-> FALSE, ai_think_timer |-> 0,
              handler |-> "__init__", ai_applied |-> FALSE]

(* reset that leaves the undo history as it is *)
reset_keeps_history ==
    /\ player1_pos' = StartPos1
    /\ player2_pos' = StartPos2
    /\ player1_walls' = WallBudget
    /\ player2_walls' = WallBudget
    /\ walls' = {}
    /\ current_player' = PLAYER1
    /\ game_over' = FALSE
    /\ winner' = None
    /\ move_history' = move_history
    /\ last_call' = Call("reset", TRUE)
    /\ prev' = <<StartPos1, StartPos2, WallBudget, WallBudget, {}, PLAYER1, FALSE, None>>

reset ==
    /\ player1_pos' = StartPos1
    /\ player2_pos' = StartPos2
    /\ player1_walls' = WallBudget
    /\ player2_walls' = WallBudget
    /\ walls' = {}
    /\ current_player' = PLAYER1
    /\ game_over' = FALSE
    /\ winner' = None
    /\ move_history' = <<>>
    /\ last_call' = Call("reset", TRUE)
    /\ prev' = <<StartPos1, StartPos2, WallBudget, WallBudget, {}, PLAYER1, FALSE, None>>

(* move_player that records the destination as the cell moved from *)
move_player_bad_record(new_pos) ==
    /\ Len(move_history) < MaxHist
    /\ IF new_pos \notin SeqToSet(get_valid_moves(current_player))
       THEN /\ last_call' = Call("move_player", FALSE)
            /\ prev' = state
            /\ UNCHANGED <<state, move_history>>
       ELSE /\ prev' = state
            /\ LET p1 == IF current_player = PLAYER1 THEN new_pos ELSE player1_pos
                   p2 == IF current_player = PLAYER1 THEN player2_pos ELSE new_pos
                   old_pos == IF current_player = PLAYER1 THEN player1_pos ELSE player2_pos
               IN /\ player1_pos' = p1
                  /\ player2_pos' = p2
                  /\ move_history' = Append(move_history,
                        [kind |-> "move", player |-> current_player,
                         old_pos |-> new_pos, new_pos |-> new_pos])
                  /\ game_over' = _check_win(p1, p2, "game_over")
                  /\ winner' = _check_win(p1, p2, "winner")
            /\ current_player' = other(current_player)
            /\ last_call' = Call("move_player", TRUE)
            /\ UNCHANGED <<player1_walls, player2_walls, walls>>

(* move_player that switches the player only when the move does not win *)
move_player_keeps_turn_on_win(new_pos) ==
    /\ Len(move_history) < MaxHist
    /\ IF new_pos \notin SeqToSet(get_valid_moves(current_player))
       THEN /\ last_call' = Call("move_player", FALSE)
            /\ prev' = state
            /\ UNCHANGED <<state, move_history>>
       ELSE /\ prev' = state
            /\ LET p1 == IF current_player = PLAYER1 THEN new_pos ELSE player1_pos
                   p2 == IF current_player = PLAYER1 THEN player2_pos ELSE new_pos
                   old_pos == IF current_player = PLAYER1 THEN player1_pos ELSE player2_pos
               IN /\ player1_pos' = p1
                  /\ player2_pos' = p2
                  /\ move_history' = Append(move_history,
                        [kind |-> "move", player |-> current_player,
                         old_pos |-> old_pos, new_pos |-> new_pos])
                  /\ game_over' = _check_win(p1, p2, "game_over")
                  /\ winner' = _check_win(p1, p2, "winner")
            /\ current_player' = IF game_over' THEN current_player ELSE other(current_player)
            /\ last_call' = Call("move_player", TRUE)
            /\ UNCHANGED <<player1_walls, player2_walls, walls>>

(* move_player that refuses only the cell the mover stands on *)
move_player_unvalidated(new_pos) ==
    /\ Len(move_history) < MaxHist
    /\ IF new_pos = (IF current_player = PLAYER1 THEN player1_pos ELSE player2_pos)
       THEN /\ last_call' = Call("move_player", FALSE)
            /\ prev' = state
            /\ UNCHANGED <<state, move_history>>
       ELSE /\ prev' = state
            /\ LET p1 == IF current_player = PLAYER1 THEN new_pos ELSE player1_pos
                   p2 == IF current_player = PLAYER1 THEN player2_pos ELSE new_pos
                   old_pos == IF current_player = PLAYER1 THEN player1_pos ELSE player2_pos
               IN /\ player1_pos' = p1
                  /\ player2_pos' = p2
                  /\ move_history' = Append(move_history,
                        [kind |-> "move", player |-> current_player,
                         old_pos |-> old_pos, new_pos |-> new_pos])
                  /\ game_over' = _check_win(p1, p2, "game_over")
                  /\ winner' = _check_win(p1, p2, "winner")
            /\ current_player' = other(current_player)
            /\ last_call' = Call("move_player", TRUE)
            /\ UNCHANGED <<player1_walls, player2_walls, walls>>

move_player(new_pos) ==
    /\ Len(move_history) < MaxHist
    /\ IF new_pos \notin SeqToSet(get_valid_moves(current_player))
       THEN /\ last_call' = Call("move_player", FALSE)
            /\ prev' = state
            /\ UNCHANGED <<state, move_history>>
       ELSE /\ prev' = state
            /\ LET p1 == IF current_player = PLAYER1 THEN new_pos ELSE player1_pos
                   p2 == IF current_player = PLAYER1 THEN player2_pos ELSE new_pos
                   old_pos == IF current_player = PLAYER1 THEN player1_pos ELSE player2_pos
               IN /\ player1_pos' = p1
                  /\ player2_pos' = p2
                  /\ move_history' = Append(move_history,
                        [kind |-> "move", player |-> current_player,
                         old_pos |-> old_pos, new_pos |-> new_pos])
                  /\ game_over' = _check_win(p1, p2, "game_over")
                  /\ winner' = _check_win(p1, p2, "winner")
            /\ current_player' = other(current_player)
            /\ last_call' = Call("move_player", TRUE)
            /\ UNCHANGED <<player1_walls, player2_walls, walls>>

(* place_wall that tests the wall in the live wall set and leaves a refused wall behind *)
place_wall_dirty(wall) ==
    /\ Len(move_history) < MaxHist
    /\ IF ~can_place_wall(wall)
       THEN /\ last_call' = Call("place_wall", FALSE)
            /\ prev' = state
            /\ walls' = walls \cup {wall}
            /\ UNCHANGED <<player1_pos, player2_pos, player1_walls, player2_walls,
                           current_player, game_over, winner, move_history>>
       ELSE /\ prev' = state
            /\ walls' = walls \cup {wall}
            /\ player1_walls' = IF current_player = PLAYER1 THEN player1_walls - 1 ELSE player1_walls
            /\ player2_walls' = IF current_player = PLAYER1 THEN player2_walls ELSE player2_walls - 1
            /\ move_history' = Append(move_history,
                  [kind |-> "wall", player |-> current_player, wall |-> wall])
            /\ current_player' = other(current_player)
            /\ last_call' = Call("place_wall", TRUE)
            /\ UNCHANGED <<player1_pos, player2_pos, game_over, winner>>

(* place_wall that charges Player2 for every wall *)
place_wall_both_counters(wall) ==
    /\ Len(move_history) < MaxHist
    /\ IF ~can_place_wall(wall)
       THEN /\ last_call' = Call("place_wall", FALSE)
            /\ prev' = state
            /\ UNCHANGED <<state, move_history>>
       ELSE /\ prev' = state
            /\ walls' = walls \cup {wall}
            /\ player1_walls' = IF current_player = PLAYER1 THEN player1_walls - 1 ELSE player1_walls
            /\ player2_walls' = player2_walls - 1
            /\ move_history' = Append(move_history,
                  [kind |-> "wall", player |-> current_player, wall |-> wall])
            /\ current_player' = other(current_player)
            /\ last_call' = Call("place_wall", TRUE)
            /\ UNCHANGED <<player1_pos, player2_pos, game_over, winner>>

(* place_wall that runs _check_win after placing *)
place_wall_checks_win(wall) ==
    /\ Len(move_history) < MaxHist
    /\ IF ~can_place_wall(wall)
       THEN /\ last_call' = Call("place_wall", FALSE)
            /\ prev' = state
            /\ UNCHANGED <<state, move_history>>
       ELSE /\ prev' = state
            /\ walls' = walls \cup {wall}
            /\ player1_walls' = IF current_player = PLAYER1 THEN player1_walls - 1 ELSE player1_walls
            /\ player2_walls' = IF current_player = PLAYER1 THEN player2_walls ELSE player2_walls - 1
            /\ move_history' = Append(move_history,
                  [kind |-> "wall", player |-> current_player, wall |-> wall])
            /\ current_player' = other(current_player)
            /\ last_call' = Call("place_wall", TRUE)
            /\ game_over' = _check_win(player1_pos, player2_pos, "game_over")
            /\ winner' = _check_win(player1_pos, player2_pos, "winner")
            /\ UNCHANGED <<player1_pos, player2_pos>>

place_wall(wall) ==
    /\ Len(move_history) < MaxHist
    /\ IF ~can_place_wall(wall)
       THEN /\ last_call' = Call("place_wall", FALSE)
            /\ prev' = state
            /\ UNCHANGED <<state, move_history>>
       ELSE /\ prev' = state
            /\ walls' = walls \cup {wall}
            /\ player1_walls' = IF current_player = PLAYER1 THEN player1_walls - 1 ELSE player1_walls
            /\ player2_walls' = IF current_player = PLAYER1 THEN player2_walls ELSE player2_walls - 1
            /\ move_history' = Append(move_history,
                  [kind |-> "wall", player |-> current_player, wall |-> wall])
            /\ current_player' = other(current_player)
            /\ last_call' = Call("place_wall", TRUE)
            /\ UNCHANGED <<player1_pos, player2_pos, game_over, winner>>

(* undo_move that gives the wall back to the player to move, not to the player of the record *)
undo_move_wrong_counter ==
    /\ IF move_history = <<>>
       THEN /\ last_call' = Call("undo_move", FALSE)
            /\ UNCHANGED <<state, move_history>>
       ELSE LET last_move == move_history[Len(move_history)]
            IN /\ move_history' = SubSeq(move_history, 1, Len(move_history) - 1)
               /\ IF last_move.kind = "move"
                  THEN /\ player1_pos' = IF last_move.player = PLAYER1
                                         THEN last_move.old_pos ELSE player1_pos
                       /\ player2_pos' = IF last_move.player = PLAYER1
                                         THEN player2_pos ELSE last_move.old_pos
                       /\ UNCHANGED <<walls, player1_walls, player2_walls>>
                  ELSE /\ walls' = walls \ {last_move.wall}
                       /\ player1_walls' = IF current_player = PLAYER1
                                           THEN player1_walls + 1 ELSE player1_walls
                       /\ player2_walls' = IF current_player = PLAYER1
                                           THEN player2_walls ELSE player2_walls + 1
                       /\ UNCHANGED <<player1_pos, player2_pos>>
               /\ current_player' = other(current_player)
               /\ game_over' = FALSE
               /\ winner' = None
               /\ last_call' = Call("undo_move", TRUE)
    /\ prev' = state'

(* undo_move that leaves game_over and winner as they are *)
undo_move_keeps_game_over ==
    /\ IF move_history = <<>>
       THEN /\ last_call' = Call("undo_move", FALSE)
            /\ UNCHANGED <<state, move_history>>
       ELSE LET last_move == move_history[Len(move_history)]
            IN /\ move_history' = SubSeq(move_history, 1, Len(move_history) - 1)
               /\ IF last_move.kind = "move"
                  THEN /\ player1_pos' = IF last_move.player = PLAYER1
                                         THEN last_move.old_pos ELSE player1_pos
                       /\ player2_pos' = IF last_move.player = PLAYER1
                                         THEN player2_pos ELSE last_move.old_pos
                       /\ UNCHANGED <<walls, player1_walls, player2_walls>>
                  ELSE /\ walls' = walls \ {last_move.wall}
                       /\ player1_walls' = IF last_move.player = PLAYER1
                                           THEN player1_walls + 1 ELSE player1_walls
                       /\ player2_walls' = IF last_move.player = PLAYER1
                                           THEN player2_walls ELSE player2_walls + 1
                       /\ UNCHANGED <<player1_pos, player2_pos>>
               /\ current_player' = other(current_player)
               /\ UNCHANGED <<game_over, winner>>
               /\ last_call' = Call("undo_move", TRUE)
    /\ prev' = state'

(* undo_move that gives the wall back but leaves it in the wall set *)
undo_move_leaves_wall ==
    /\ IF move_history = <<>>
       THEN /\ last_call' = Call("undo_move", FALSE)
            /\ UNCHANGED <<state, move_history>>
       ELSE LET last_move == move_history[Len(move_history)]
            IN /\ move_history' = SubSeq(move_history, 1, Len(move_history) - 1)
               /\ IF last_move.kind = "move"
                  THEN /\ player1_pos' = IF last_move.player = PLAYER1
                                         THEN last_move.old_pos ELSE player1_pos
                       /\ player2_pos' = IF last_move.player = PLAYER1
                                         THEN player2_pos ELSE last_move.old_pos
                       /\ UNCHANGED <<walls, player1_walls, player2_walls>>
                  ELSE /\ walls' = walls
                       /\ player1_walls' = IF last_move.player = PLAYER1
                                           THEN player1_walls + 1 ELSE player1_walls
                       /\ player2_walls' = IF last_move.player = PLAYER1
                                           THEN player2_walls ELSE player2_walls + 1
                       /\ UNCHANGED <<player1_pos, player2_pos>>
               /\ current_player' = other(current_player)
               /\ game_over' = FALSE
               /\ winner' = None
               /\ last_call' = Call("undo_move", TRUE)
    /\ prev' = state'

undo_move ==
    /\ IF move_history = <<>>
       THEN /\ last_call' = Call("undo_move", FALSE)
            /\ UNCHANGED <<state, move_history>>
       ELSE LET last_move == move_history[Len(move_history)]
            IN /\ move_history' = SubSeq(move_history, 1, Len(move_history) - 1)
               /\ IF last_move.kind = "move"
                  THEN /\ player1_pos' = IF last_move.player = PLAYER1
                                         THEN last_move.old_pos ELSE player1_pos
                       /\ player2_pos' = IF last_move.player = PLAYER1
                                         THEN player2_pos ELSE last_move.old_pos
                       /\ UNCHANGED <<walls, player1_walls, player2_walls>>
                  ELSE /\ walls' = walls \ {last_move.wall}
                       /\ player1_walls' = IF last_move.player = PLAYER1
                                           THEN player1_walls + 1 ELSE player1_walls
                       /\ player2_walls' = IF last_move.player = PLAYER1
                                           THEN player2_walls ELSE player2_walls + 1
                       /\ UNCHANGED <<player1_pos, player2_pos>>
               /\ current_player' = other(current_player)
               /\ game_over' = FALSE
               /\ winner' = None
               /\ last_call' = Call("undo_move", TRUE)
    /\ prev' = state'

Next ==
    \/ reset /\ UNCHANGED gui
    \/ \E new_pos \in InputPos : move_player(new_pos) /\ UNCHANGED gui
    \/ \E wall \in InputWall : place_wall(wall) /\ UNCHANGED gui
    \/ undo_move /\ UNCHANGED gui

Spec == Init /\ [][Next]_vars

(* The same behaviours, named apart for the properties of the read-only    *)
(* queries (get_valid_moves, get_shortest_path_length, is_wall_between),   *)
(* which are evaluated in every state of a game.                           *)
SpecQueries == Init /\ [][Next]_vars

(* The same behaviours again, for the properties of the wall listing       *)
(* (get_all_valid_walls), which tries every slot in every state.           *)
SpecWallQueries == Init /\ [][Next]_vars

(* And once more, for the properties of the wall candidates a search would *)
(* be given in each state of a game (_get_strategic_walls).                *)
SpecCandidates == Init /\ [][Next]_vars

(***************************************************************************)
(* The decision engine (src/src/ai.py): QuoridorAI.get_best_move and the   *)
(* search below it.  The search works on copies of the game.  A game the   *)
(* search holds is a record of the GameState fields whose walls field is a *)
(* reference into heap, the wall-set objects alive during the call: the    *)
(* scalar fields are immutable values, the wall set is the one object a    *)
(* copy could share with the game it was copied from.                      *)
(***************************************************************************)
Difficulty == {"easy", "medium", "hard"}

_get_depth_for_difficulty(difficulty) ==
    CASE difficulty = "easy" -> 1
      [] difficulty = "medium" -> 2
      [] difficulty = "hard" -> 3
      [] OTHER -> 2

(* float('inf') of the search: a score above every score the search forms *)
float_inf == 1000000

(* the wall set of the engine's own game *)
canonical_ref == <<>>

(* the engine's game as get_best_move receives it *)
canonical_game ==
    [player1_pos |-> player1_pos, player2_pos |-> player2_pos,
     player1_walls |-> player1_walls, player2_walls |-> player2_walls,
     walls |-> canonical_ref, current_player |-> current_player,
     game_over |-> game_over, winner |-> winner]

canonical_heap == (canonical_ref :> walls)

(* GameState.copy that hands the wall set itself to the new state *)
copy_shared_walls(game, heap, fresh) ==
    [game |-> game, heap |-> heap]

(* game_copy = QuoridorGame(); game_copy.state = game.state.copy(): a new  *)
(* state with the scalar fields and a new wall set, at reference fresh     *)
copy(game, heap, fresh) ==
    [game |-> [game EXCEPT !.walls = fresh],
     heap |-> (fresh :> heap[game.walls]) @@ heap]

(* get_valid_moves() of a game of the search, for its player to move *)
get_valid_moves_on(game, heap) ==
    LET current_pos == IF game.current_player = PLAYER1
                       THEN game.player1_pos ELSE game.player2_pos
        opponent_pos == IF game.current_player = PLAYER1
                        THEN game.player2_pos ELSE game.player1_pos
    IN moves_in_direction(heap[game.walls], current_pos, opponent_pos, directions[1])
       \o moves_in_direction(heap[game.walls], current_pos, opponent_pos, directions[2])
       \o moves_in_direction(heap[game.walls], current_pos, opponent_pos, directions[3])
       \o moves_in_direction(heap[game.walls], current_pos, opponent_pos, directions[4])

get_current_player_walls_on(game) ==
    IF game.current_player = PLAYER1 THEN game.player1_walls ELSE game.player2_walls

(* can_place_wall(wall) of a game of the search *)
can_place_wall_on(game, heap, wall) ==
    IF get_current_player_walls_on(game) <= 0 THEN FALSE
    ELSE IF ~(0 <= wall.row /\ wall.row < BoardSize - 1
              /\ 0 <= wall.col /\ wall.col < BoardSize - 1) THEN FALSE
    ELSE IF wall \in heap[game.walls] THEN FALSE
    ELSE IF \E existing_wall \in heap[game.walls] : _walls_overlap(wall, existing_wall)
         THEN FALSE
    ELSE LET test_walls == heap[game.walls] \cup {wall}
         IN /\ _has_path_to_goal(test_walls, game.player1_pos, PLAYER1)
            /\ _has_path_to_goal(test_walls, game.player2_pos, PLAYER2)

(* move_player(new_pos) of a game of the search: the game it leaves *)
move_player_on(game, heap, new_pos) ==
    IF new_pos \notin SeqToSet(get_valid_moves_on(game, heap)) THEN game
    ELSE LET p1 == IF game.current_player = PLAYER1 THEN new_pos ELSE game.player1_pos
             p2 == IF game.current_player = PLAYER1 THEN game.player2_pos ELSE new_pos
         IN [game EXCEPT
                !.player1_pos = p1,
                !.player2_pos = p2,
                !.game_over = IF p1[1] = 0 \/ p2[1] = BoardSize - 1 THEN TRUE ELSE @,
                !.winner = IF p1[1] = 0 THEN PLAYER1
                           ELSE IF p2[1] = BoardSize - 1 THEN PLAYER2 ELSE @,
                !.current_player = other(game.current_player)]

(* place_wall(wall) of a game of the search: the game and the heap it      *)
(* leaves; the wall is added to the wall-set object the game refers to     *)
place_wall_on(game, heap, wall) ==
    IF ~can_place_wall_on(game, heap, wall) THEN [game |-> game, heap |-> heap]
    ELSE [game |-> [game EXCEPT
                       !.player1_walls = IF game.current_player = PLAYER1 THEN @ - 1 ELSE @,
                       !.player2_walls = IF game.current_player = PLAYER1 THEN @ ELSE @ - 1,
                       !.current_player = other(game.current_player)],
          heap |-> [heap EXCEPT ![game.walls] = @ \cup {wall}]]

(* _evaluate; a path of infinite length makes the path term infinite *)
_evaluate(game, heap, player) ==
    LET ai_pos == IF player = PLAYER1 THEN game.player1_pos ELSE game.player2_pos
        ai_path == get_shortest_path_length(heap[game.walls], ai_pos, player)
        opponent_path == get_shortest_path_length(heap[game.walls],
                             IF player = PLAYER1 THEN game.player2_pos ELSE game.player1_pos,
                             IF player = PLAYER1 THEN PLAYER2 ELSE PLAYER1)
        path_score == (opponent_path - ai_path) * 10
        ai_walls == IF player = PLAYER1 THEN game.player1_walls ELSE game.player2_walls
        opponent_walls == IF player = PLAYER1 THEN game.player2_walls ELSE game.player1_walls
        wall_score == (ai_walls - opponent_walls) * 2
        center == BoardSize \div 2
        center_dist == abs(ai_pos[2] - center)
        center_score == (center - center_dist) * 1
        progress == IF player = PLAYER1 THEN (8 - ai_pos[1]) * 2 ELSE ai_pos[1] * 2
    IN IF ai_path = inf /\ opponent_path = inf THEN "nan"
       ELSE IF opponent_path = inf THEN float_inf
       ELSE IF ai_path = inf THEN -float_inf
       ELSE path_score + wall_score + center_score + progress

max(a, b) == IF a >= b THEN a ELSE b
min(a, b) == IF a <= b THEN a ELSE b

(* the actions a node of _minimax recurses over: the moves of              *)
(* game.get_valid_moves(), in both of its loops                            *)
searched_actions(game, heap) ==
    [i \in 1 .. Len(get_valid_moves_on(game, heap)) |->
        [kind |-> "move", data |-> get_valid_moves_on(game, heap)[i]]]

(* _minimax and its two loops over get_valid_moves(): index is the place   *)
(* in moves, eval the max_eval or min_eval so far.  node names the game    *)
(* searched, and the copy made for moves[index] takes the reference        *)
(* Append(node, index).  The result carries, beside the score, whether     *)
(* every copy made below had a wall set of its own.                        *)
(* flags is the trace of the search: for each call of _minimax its        *)
(* is_maximizing and the current_player of the game it is called on        *)
seen(flags, result) == [result EXCEPT !.flags = @ \cup flags]

RECURSIVE _minimax(_, _, _, _, _, _, _, _)
RECURSIVE minimax_loop(_, _, _, _, _, _, _, _, _, _, _, _)
(* minimax_loop whose minimizing loop breaks while beta is still above alpha *)
minimax_loop_eager_cut(game, heap, moves, index, depth, alpha, beta, eval, fresh, is_maximizing, player, node) ==
    IF index > Len(moves) THEN [score |-> eval, fresh |-> fresh, flags |-> {}]
    ELSE CHOOSE result \in
        {LET own == fresh /\ r.fresh /\ c.game.walls \notin DOMAIN heap
         IN IF is_maximizing
            THEN IF beta <= max(alpha, r.score)
                 THEN [score |-> max(eval, r.score), fresh |-> own, flags |-> r.flags]
                 ELSE seen(r.flags,
                      minimax_loop(game, heap, moves, index + 1, depth,
                                   max(alpha, r.score), beta, max(eval, r.score), own,
                                   is_maximizing, player, node))
            ELSE IF min(beta, r.score) >= alpha
                 THEN [score |-> min(eval, r.score), fresh |-> own, flags |-> r.flags]
                 ELSE seen(r.flags,
                      minimax_loop(game, heap, moves, index + 1, depth,
                                   alpha, min(beta, r.score), min(eval, r.score), own,
                                   is_maximizing, player, node))
         : <<c, r>> \in
             {<<c, _minimax(game_copy, c.heap, depth - 1, alpha, beta,
                            ~is_maximizing, player, Append(node, index))>>
              : <<c, game_copy>> \in
                  {<<c, move_player_on(c.game, c.heap, moves[index].data)>>
                   : c \in {copy(game, heap, Append(node, index))}}}} : TRUE

(* minimax_loop that hands its own is_maximizing down to the next ply *)
minimax_loop_same_flag(game, heap, moves, index, depth, alpha, beta, eval, fresh, is_maximizing, player, node) ==
    IF index > Len(moves) THEN [score |-> eval, fresh |-> fresh, flags |-> {}]
    ELSE CHOOSE result \in
        {LET own == fresh /\ r.fresh /\ c.game.walls \notin DOMAIN heap
         IN IF is_maximizing
            THEN IF beta <= max(alpha, r.score)
                 THEN [score |-> max(eval, r.score), fresh |-> own, flags |-> r.flags]
                 ELSE seen(r.flags,
                      minimax_loop(game, heap, moves, index + 1, depth,
                                   max(alpha, r.score), beta, max(eval, r.score), own,
                                   is_maximizing, player, node))
            ELSE IF min(beta, r.score) <= alpha
                 THEN [score |-> min(eval, r.score), fresh |-> own, flags |-> r.flags]
                 ELSE seen(r.flags,
                      minimax_loop(game, heap, moves, index + 1, depth,
                                   alpha, min(beta, r.score), min(eval, r.score), own,
                                   is_maximizing, player, node))
         : <<c, r>> \in
             {<<c, _minimax(game_copy, c.heap, depth - 1, alpha, beta,
                            is_maximizing, player, Append(node, index))>>
              : <<c, game_copy>> \in
                  {<<c, move_player_on(c.game, c.heap, moves[index].data)>>
                   : c \in {copy(game, heap, Append(node, index))}}}} : TRUE

minimax_loop(game, heap, moves, index, depth, alpha, beta, eval, fresh, is_maximizing, player, node) ==
    IF index > Len(moves) THEN [score |-> eval, fresh |-> fresh, flags |-> {}]
    ELSE CHOOSE result \in
        {LET own == fresh /\ r.fresh /\ c.game.walls \notin DOMAIN heap
         IN IF is_maximizing
            THEN IF beta <= max(alpha, r.score)
                 THEN [score |-> max(eval, r.score), fresh |-> own, flags |-> r.flags]
                 ELSE seen(r.flags,
                      minimax_loop(game, heap, moves, index + 1, depth,
                                   max(alpha, r.score), beta, max(eval, r.score), own,
                                   is_maximizing, player, node))
            ELSE IF min(beta, r.score) <= alpha
                 THEN [score |-> min(eval, r.score), fresh |-> own, flags |-> r.flags]
                 ELSE seen(r.flags,
                      minimax_loop(game, heap, moves, index + 1, depth,
                                   alpha, min(beta, r.score), min(eval, r.score), own,
                                   is_maximizing, player, node))
         : <<c, r>> \in
             {<<c, _minimax(game_copy, c.heap, depth - 1, alpha, beta,
                            ~is_maximizing, player, Append(node, index))>>
              : <<c, game_copy>> \in
                  {<<c, move_player_on(c.game, c.heap, moves[index].data)>>
                   : c \in {copy(game, heap, Append(node, index))}}}} : TRUE

(* _minimax that scores a finished game as won by the other player *)
_minimax_win_scored_as_loss(game, heap, depth, alpha, beta, is_maximizing, player, node) ==
    IF game.game_over
    THEN [score |-> IF game.winner # player THEN 1000 + depth ELSE -1000 - depth,
          fresh |-> TRUE, flags |-> {<<is_maximizing, game.current_player>>}]
    ELSE IF depth = 0
    THEN [score |-> _evaluate(game, heap, player), fresh |-> TRUE,
          flags |-> {<<is_maximizing, game.current_player>>}]
    ELSE CHOOSE result \in
        {seen({<<is_maximizing, game.current_player>>},
              minimax_loop(game, heap, moves, 1, depth, alpha, beta,
                           IF is_maximizing THEN -float_inf ELSE float_inf, TRUE,
                           is_maximizing, player, node))
         : moves \in {searched_actions(game, heap)}} : TRUE

_minimax(game, heap, depth, alpha, beta, is_maximizing, player, node) ==
    IF game.game_over
    THEN [score |-> IF game.winner = player THEN 1000 + depth ELSE -1000 - depth,
          fresh |-> TRUE, flags |-> {<<is_maximizing, game.current_player>>}]
    ELSE IF depth = 0
    THEN [score |-> _evaluate(game, heap, player), fresh |-> TRUE,
          flags |-> {<<is_maximizing, game.current_player>>}]
    ELSE CHOOSE result \in
        {seen({<<is_maximizing, game.current_player>>},
              minimax_loop(game, heap, moves, 1, depth, alpha, beta,
                           IF is_maximizing THEN -float_inf ELSE float_inf, TRUE,
                           is_maximizing, player, node))
         : moves \in {searched_actions(game, heap)}} : TRUE

(* the anchors _get_strategic_walls tries, in its order: the rows and      *)
(* columns within two of the opponent's, both orientations                 *)
strategic_slots(opponent_pos) ==
    [i \in 1 .. 50 |->
        [row |-> opponent_pos[1] - 2 + (i - 1) \div 10,
         col |-> opponent_pos[2] - 2 + (((i - 1) \div 2) % 5),
         orientation |-> IF (i - 1) % 2 = 0 THEN HORIZONTAL ELSE VERTICAL]]

(* _get_strategic_walls before its cap: the opponent is the one of player  *)
(* strategic_walls that keeps every slot on the board, placeable or not *)
strategic_walls_unfiltered(game, heap, player) ==
    LET opponent_pos == IF player = PLAYER1 THEN game.player2_pos ELSE game.player1_pos
        keep(wall) == /\ 0 <= wall.row /\ wall.row < BoardSize - 1
                      /\ 0 <= wall.col /\ wall.col < BoardSize - 1
    IN SelectSeq(strategic_slots(opponent_pos), keep)

strategic_walls(game, heap, player) ==
    LET opponent_pos == IF player = PLAYER1 THEN game.player2_pos ELSE game.player1_pos
        keep(wall) == /\ 0 <= wall.row /\ wall.row < BoardSize - 1
                      /\ 0 <= wall.col /\ wall.col < BoardSize - 1
                      /\ can_place_wall_on(game, heap, wall)
    IN SelectSeq(strategic_slots(opponent_pos), keep)

(* _get_strategic_walls: every list random.sample may leave of more than   *)
(* 20 walls, the list itself otherwise                                     *)
_get_strategic_walls(game, heap, player) ==
    {IF Len(found) > 20
     THEN {s \in [1 .. 20 -> SeqToSet(found)] : \A i, j \in 1 .. 20 : s[i] = s[j] => i = j}
     ELSE {found}
     : found \in {strategic_walls(game, heap, player)}}

(* the two loops of _get_minimax_move; best is the running record of       *)
(* best_score, best_move, alpha, the heap and the copies' freshness        *)
RECURSIVE root_walls_loop(_, _, _, _, _, _)
(* root_walls_loop in which a wall that ties the best score replaces it *)
root_walls_loop_last_seen(game, wall_list, index, best, player, max_depth) ==
    IF index > Len(wall_list) THEN best
    ELSE CHOOSE result \in
        {IF ~can_place_wall_on(c.game, c.heap, wall_list[index])
         THEN root_walls_loop(game, wall_list, index + 1,
                  [best EXCEPT !.heap = c.heap,
                               !.fresh = @ /\ c.game.walls \notin DOMAIN best.heap],
                  player, max_depth)
         ELSE CHOOSE after \in
             {root_walls_loop(game, wall_list, index + 1,
                  [best_score |-> max(best.best_score, r.score),
                   best_move |-> IF r.score >= best.best_score
                                 THEN [kind |-> "wall", data |-> wall_list[index]]
                                 ELSE best.best_move,
                   alpha |-> max(best.alpha, r.score),
                   heap |-> p.heap,
                   fresh |-> best.fresh /\ r.fresh /\ c.game.walls \notin DOMAIN best.heap,
                   flags |-> best.flags \cup r.flags],
                  player, max_depth)
              : <<p, r>> \in
                  {<<p, _minimax(p.game, p.heap, max_depth - 1, best.alpha, float_inf,
                                 FALSE, player, <<"wall", index>>)>>
                   : p \in {place_wall_on(c.game, c.heap, wall_list[index])}}} : TRUE
         : c \in {copy(game, best.heap, <<"wall", index>>)}} : TRUE

root_walls_loop(game, wall_list, index, best, player, max_depth) ==
    IF index > Len(wall_list) THEN best
    ELSE CHOOSE result \in
        {IF ~can_place_wall_on(c.game, c.heap, wall_list[index])
         THEN root_walls_loop(game, wall_list, index + 1,
                  [best EXCEPT !.heap = c.heap,
                               !.fresh = @ /\ c.game.walls \notin DOMAIN best.heap],
                  player, max_depth)
         ELSE CHOOSE after \in
             {root_walls_loop(game, wall_list, index + 1,
                  [best_score |-> max(best.best_score, r.score),
                   best_move |-> IF r.score > best.best_score
                                 THEN [kind |-> "wall", data |-> wall_list[index]]
                                 ELSE best.best_move,
                   alpha |-> max(best.alpha, r.score),
                   heap |-> p.heap,
                   fresh |-> best.fresh /\ r.fresh /\ c.game.walls \notin DOMAIN best.heap,
                   flags |-> best.flags \cup r.flags],
                  player, max_depth)
              : <<p, r>> \in
                  {<<p, _minimax(p.game, p.heap, max_depth - 1, best.alpha, float_inf,
                                 FALSE, player, <<"wall", index>>)>>
                   : p \in {place_wall_on(c.game, c.heap, wall_list[index])}}} : TRUE
         : c \in {copy(game, best.heap, <<"wall", index>>)}} : TRUE

RECURSIVE root_moves_loop(_, _, _, _, _, _, _)
root_moves_loop(game, moves, wall_list, index, best, player, max_depth) ==
    IF index > Len(moves)
    THEN root_walls_loop(game, wall_list, 1, best, player, max_depth)
    ELSE CHOOSE result \in
        {root_moves_loop(game, moves, wall_list, index + 1,
              [best_score |-> max(best.best_score, r.score),
               best_move |-> IF r.score > best.best_score
                             THEN [kind |-> "move", data |-> moves[index]]
                             ELSE best.best_move,
               alpha |-> max(best.alpha, r.score),
               heap |-> c.heap,
               fresh |-> best.fresh /\ r.fresh /\ c.game.walls \notin DOMAIN best.heap,
               flags |-> best.flags \cup r.flags],
              player, max_depth)
         : <<c, r>> \in
             {<<c, _minimax(game_copy, c.heap, max_depth - 1, best.alpha, float_inf,
                            FALSE, player, <<"move", index>>)>>
              : <<c, game_copy>> \in
                  {<<c, move_player_on(c.game, c.heap, moves[index])>>
                   : c \in {copy(game, best.heap, <<"move", index>>)}}}} : TRUE

(* _get_minimax_move on the wall list wall_list: the action returned, its  *)
(* score, and the heap the call leaves.  With no action scored and no move *)
(* to fall back on, moves[0] raises: kind "error".                         *)
_get_minimax_move(game, heap, player, max_depth, wall_list) ==
    CHOOSE result \in
        {[kind |-> IF best.best_move.kind # "none" THEN best.best_move.kind
                   ELSE IF moves # <<>> THEN "move" ELSE "error",
          data |-> IF best.best_move.kind # "none" THEN best.best_move.data
                   ELSE IF moves # <<>> THEN moves[1] ELSE None,
          score |-> best.best_score,
          branch |-> "search",
          heap |-> best.heap,
          fresh |-> best.fresh,
          flags |-> best.flags]
         : <<moves, best>> \in
             {<<moves, root_moves_loop(game, moves, wall_list, 1,
                           [best_score |-> -float_inf,
                            best_move |-> [kind |-> "none", data |-> None],
                            alpha |-> -float_inf, heap |-> heap, fresh |-> TRUE,
                            flags |-> {}],
                           player, max_depth)>>
              : moves \in {get_valid_moves_on(game, heap)}}} : TRUE

(* _get_easy_move: every action its random draws can lead to.  It reads    *)
(* the engine's game and copies nothing.  random.choice of an empty list   *)
(* raises: kind "error".                                                   *)
(* _get_easy_move that draws its wall from every slot of the board *)
_get_easy_move_any_slot(player) ==
    LET valid_moves == get_valid_moves(current_player)
        dist(move) == abs(move[1] - goal_row(player))
        (* the first move, in the order of valid_moves, nearest the goal row *)
        best_index == CHOOSE i \in 1 .. Len(valid_moves) :
                          /\ \A j \in 1 .. Len(valid_moves) :
                                 dist(valid_moves[i]) <= dist(valid_moves[j])
                          /\ \A j \in 1 .. i - 1 :
                                 dist(valid_moves[j]) > dist(valid_moves[i])
        result(branch, kind, data) ==
            [kind |-> kind, data |-> data, score |-> 0, branch |-> branch,
             heap |-> canonical_heap, fresh |-> TRUE]
        any_move == IF valid_moves = <<>> THEN {result("random", "error", None)}
                    ELSE {result("random", "move", m) : m \in SeqToSet(valid_moves)}
    IN (IF valid_moves # <<>>
        THEN {result("strategic", "move", valid_moves[best_index])} ELSE {})
       \cup any_move
       \cup (IF get_current_player_walls = 0 THEN {}
             ELSE {result("random", "wall", w) : w \in SeqToSet(wall_slots(BoardSize - 1))})

_get_easy_move(player) ==
    LET valid_moves == get_valid_moves(current_player)
        dist(move) == abs(move[1] - goal_row(player))
        (* the first move, in the order of valid_moves, nearest the goal row *)
        best_index == CHOOSE i \in 1 .. Len(valid_moves) :
                          /\ \A j \in 1 .. Len(valid_moves) :
                                 dist(valid_moves[i]) <= dist(valid_moves[j])
                          /\ \A j \in 1 .. i - 1 :
                                 dist(valid_moves[j]) > dist(valid_moves[i])
        result(branch, kind, data) ==
            [kind |-> kind, data |-> data, score |-> 0, branch |-> branch,
             heap |-> canonical_heap, fresh |-> TRUE]
        any_move == IF valid_moves = <<>> THEN {result("random", "error", None)}
                    ELSE {result("random", "move", m) : m \in SeqToSet(valid_moves)}
    IN (IF valid_moves # <<>>
        THEN {result("strategic", "move", valid_moves[best_index])} ELSE {})
       \cup any_move
       \cup (IF get_current_player_walls = 0 THEN {}
             ELSE {result("random", "wall", w) : w \in SeqToSet(get_all_valid_walls)})

(* the wall lists _get_minimax_move may loop over: what                    *)
(* _get_strategic_walls returns if the player to move has a wall, [] if not *)
root_wall_lists(player) ==
    IF get_current_player_walls > 0
    THEN UNION _get_strategic_walls(canonical_game, canonical_heap, player)
    ELSE {<<>>}

(* get_best_move of a QuoridorAI(player, difficulty): its possible results *)
get_best_move_results(player, difficulty) ==
    IF difficulty = "easy" THEN _get_easy_move(player)
    ELSE {_get_minimax_move(canonical_game, canonical_heap, player,
                            _get_depth_for_difficulty(difficulty), wall_list)
          : wall_list \in root_wall_lists(player)}

(* A call ai.get_best_move(game) of a QuoridorAI(player, difficulty).  The *)
(* engine's wall set is read back from the heap the call leaves.  The      *)
(* search is run where the engine takes calls, once for a position: a      *)
(* refused call and a search leave the position to the next call.          *)
get_best_move(player, difficulty) ==
    /\ Len(move_history) < MaxHist
    /\ last_call.ok
    /\ last_call.op # "get_best_move"
    /\ \E result \in get_best_move_results(player, difficulty) :
           /\ last_call' = [op |-> "get_best_move", ok |-> TRUE,
                            player |-> player, difficulty |-> difficulty,
                            branch |-> result.branch, kind |-> result.kind,
                            data |-> result.data, score |-> result.score,
                            fresh |-> result.fresh,
                            flags |-> IF result.branch = "search"
                                      THEN result.flags ELSE {}]
           /\ walls' = result.heap[canonical_ref]
    /\ UNCHANGED <<player1_pos, player2_pos, player1_walls, player2_walls,
                   current_player, game_over, winner, move_history>>
    /\ prev' = state'

(* GameGUI._execute_ai_move after get_best_move has returned: the action   *)
(* is handed to move_player or to place_wall                               *)
_execute_ai_move ==
    /\ last_call.op = "get_best_move"
    /\ last_call.kind # "error"
    /\ IF last_call.kind = "move"
       THEN move_player(last_call.data)
       ELSE place_wall(last_call.data)

(* a game in which the decision engine is consulted: what it returns is    *)
(* played before the next call                                             *)
NextAI ==
    \/ last_call.op # "get_best_move" /\ Next
    \/ \E player \in Player : \E difficulty \in Difficulty :
           get_best_move(player, difficulty) /\ UNCHANGED gui
    \/ _execute_ai_move /\ UNCHANGED gui

SpecAI == Init /\ [][NextAI]_vars

(***************************************************************************)
(* The window (src/src/gui.py): GameGUI's handlers that reach the engine.  *)
(* gui holds the fields they read and write: current_screen, game_mode,    *)
(* ai (the difficulty of the QuoridorAI(Player2, ...) held, or None),      *)
(* ai_thinking and ai_think_timer, counted in frames.  handler names the   *)
(* handler that ran last, and ai_applied tells whether it handed an action *)
(* of the AI to the engine.  The main loop runs one handler at a time.     *)
(***************************************************************************)
(* the frames of the AI's think delay (0.4 s in the program) *)
ThinkFrames == 2

GameMode == {"pvp", "pve_easy", "pve_medium", "pve_hard"}

_is_ai_turn == gui.ai # None /\ current_player = PLAYER2 /\ ~game_over

(* _on_start_game(mode): ai_thinking and ai_think_timer are not written *)
_on_start_game(mode) ==
    /\ reset
    /\ gui' = [gui EXCEPT !.game_mode = mode,
                          !.current_screen = "GAME",
                          !.ai = IF mode = "pve_easy" THEN "easy"
                                 ELSE IF mode = "pve_medium" THEN "medium"
                                 ELSE IF mode = "pve_hard" THEN "hard"
                                 ELSE None,
                          !.handler = "_on_start_game",
                          !.ai_applied = FALSE]

(* the menu's start callback *)
start_from_menu ==
    /\ gui.current_screen = "MENU"
    /\ \E mode \in GameMode : _on_start_game(mode)

(* the Menu button of the game screen *)
_return_to_menu ==
    /\ gui.current_screen = "GAME"
    /\ reset
    /\ gui' = [gui EXCEPT !.current_screen = "MENU",
                          !.handler = "_return_to_menu",
                          !.ai_applied = FALSE]

(* the Restart button of the game screen *)
_restart_game ==
    /\ gui.current_screen = "GAME"
    /\ gui.game_mode # None
    /\ _on_start_game(gui.game_mode)

(* _handle_event reaching _handle_left_click: a click on a valid cell, or  *)
(* in wall placement mode on a slot can_place_wall accepts                 *)
_handle_left_click ==
    /\ gui.current_screen = "GAME"
    /\ ~(game_over \/ gui.ai_thinking)
    /\ ~_is_ai_turn
    /\ \/ \E cell \in SeqToSet(get_valid_moves(current_player)) : move_player(cell)
       \/ \E wall_preview \in InputWall :
              can_place_wall(wall_preview) /\ place_wall(wall_preview)
    /\ gui' = [gui EXCEPT !.handler = "_handle_left_click", !.ai_applied = FALSE]

(* _update(dt) on the game screen, dt in frames: start the think timer on  *)
(* the AI's turn, count it down, and at its end run _execute_ai_move       *)
_update(dt) ==
    /\ gui.current_screen = "GAME"
    /\ LET start == _is_ai_turn /\ ~gui.ai_thinking
           ai_thinking == gui.ai_thinking \/ start
           ai_think_timer == (IF start THEN ThinkFrames ELSE gui.ai_think_timer)
                             - (IF ai_thinking THEN dt ELSE 0)
           after(thinking, applied) ==
               gui' = [gui EXCEPT !.ai_thinking = thinking,
                                  !.ai_think_timer = ai_think_timer,
                                  !.handler = "_update",
                                  !.ai_applied = applied]
       IN IF ~(ai_thinking /\ ai_think_timer <= 0)
          THEN /\ after(ai_thinking, FALSE)
               /\ UNCHANGED <<state, move_history, last_call, prev>>
          ELSE IF gui.ai = None \/ game_over
          THEN /\ after(FALSE, FALSE)
               /\ UNCHANGED <<state, move_history, last_call, prev>>
          ELSE /\ \E result \in get_best_move_results(PLAYER2, gui.ai) :
                      IF result.kind = "move" THEN move_player(result.data)
                      ELSE IF result.kind = "wall" THEN place_wall(result.data)
                      ELSE UNCHANGED <<state, move_history, last_call, prev>>
               /\ after(FALSE, TRUE)

NextGUI ==
    \/ start_from_menu
    \/ _return_to_menu
    \/ _restart_game
    \/ _handle_left_click
    \/ \E dt \in 1 .. ThinkFrames : _update(dt)

SpecGUI == Init /\ [][NextGUI]_vars

(***************************************************************************)
(* The read-only queries as calls on the engine's game object, statement   *)
(* by statement.  self.state is a game of the heap; what a call leaves is  *)
(* the game self.state refers to at its return and the heap of wall sets.  *)
(***************************************************************************)
(* can_place_wall(wall) with its test state: the copy gets the reference   *)
(* fresh, the wall is added to the copy's wall set, self.state is the copy *)
(* during the two path tests, and original_state again at the return.     *)
(* can_place_wall that returns with the test state still in self.state *)
can_place_wall_run_no_restore(game, heap, wall, fresh) ==
    IF get_current_player_walls_on(game) <= 0
    THEN [result |-> FALSE, game |-> game, heap |-> heap]
    ELSE IF ~(0 <= wall.row /\ wall.row < BoardSize - 1
              /\ 0 <= wall.col /\ wall.col < BoardSize - 1)
    THEN [result |-> FALSE, game |-> game, heap |-> heap]
    ELSE IF wall \in heap[game.walls]
    THEN [result |-> FALSE, game |-> game, heap |-> heap]
    ELSE IF \E existing_wall \in heap[game.walls] : _walls_overlap(wall, existing_wall)
    THEN [result |-> FALSE, game |-> game, heap |-> heap]
    ELSE LET test_state == copy(game, heap, fresh)
             added == [test_state.heap EXCEPT ![test_state.game.walls] = @ \cup {wall}]
             original_state == game
             self_state == test_state.game
             p1_has_path == _has_path_to_goal(added[self_state.walls],
                                              self_state.player1_pos, PLAYER1)
             p2_has_path == _has_path_to_goal(added[self_state.walls],
                                              self_state.player2_pos, PLAYER2)
         IN [result |-> p1_has_path /\ p2_has_path,
             game |-> self_state,
             heap |-> added]

can_place_wall_run(game, heap, wall, fresh) ==
    IF get_current_player_walls_on(game) <= 0
    THEN [result |-> FALSE, game |-> game, heap |-> heap]
    ELSE IF ~(0 <= wall.row /\ wall.row < BoardSize - 1
              /\ 0 <= wall.col /\ wall.col < BoardSize - 1)
    THEN [result |-> FALSE, game |-> game, heap |-> heap]
    ELSE IF wall \in heap[game.walls]
    THEN [result |-> FALSE, game |-> game, heap |-> heap]
    ELSE IF \E existing_wall \in heap[game.walls] : _walls_overlap(wall, existing_wall)
    THEN [result |-> FALSE, game |-> game, heap |-> heap]
    ELSE LET test_state == copy(game, heap, fresh)
             added == [test_state.heap EXCEPT ![test_state.game.walls] = @ \cup {wall}]
             original_state == game
             self_state == test_state.game
             p1_has_path == _has_path_to_goal(added[self_state.walls],
                                              self_state.player1_pos, PLAYER1)
             p2_has_path == _has_path_to_goal(added[self_state.walls],
                                              self_state.player2_pos, PLAYER2)
         IN [result |-> p1_has_path /\ p2_has_path,
             game |-> original_state,
             heap |-> added]

(* the loops of get_all_valid_walls and of _get_strategic_walls: one call  *)
(* of can_place_wall for each slot of slots on the board, from index on;   *)
(* found is the list so far                                                *)
RECURSIVE can_place_wall_loop(_, _, _, _, _)
can_place_wall_loop(game, heap, slots, index, found) ==
    IF index > Len(slots) THEN [result |-> found, game |-> game, heap |-> heap]
    ELSE IF ~(0 <= slots[index].row /\ slots[index].row < BoardSize - 1
              /\ 0 <= slots[index].col /\ slots[index].col < BoardSize - 1)
    THEN can_place_wall_loop(game, heap, slots, index + 1, found)
    ELSE CHOOSE after \in
        {can_place_wall_loop(r.game, r.heap, slots, index + 1,
                             IF r.result THEN Append(found, slots[index]) ELSE found)
         : r \in {can_place_wall_run(game, heap, slots[index], <<"test", index>>)}} : TRUE

(* the engine's game becomes the game and the wall sets a call has left *)
returns(r) ==
    /\ player1_pos' = r.game.player1_pos
    /\ player2_pos' = r.game.player2_pos
    /\ player1_walls' = r.game.player1_walls
    /\ player2_walls' = r.game.player2_walls
    /\ walls' = r.heap[r.game.walls]
    /\ current_player' = r.game.current_player
    /\ game_over' = r.game.game_over
    /\ winner' = r.game.winner
    /\ UNCHANGED <<move_history, gui>>
    /\ prev' = state

(* the queries called while the history has room for two calls more, once *)
(* after a call that was accepted                                          *)
Queries == {"get_valid_moves", "can_place_wall", "get_all_valid_walls",
            "get_shortest_path_length", "_get_strategic_walls"}

query_time ==
    /\ Len(move_history) + 1 < MaxHist
    /\ last_call.ok
    /\ last_call.op \notin Queries

call_get_valid_moves(player) ==
    /\ query_time
    /\ last_call' = [op |-> "get_valid_moves", ok |-> TRUE,
                     result |-> get_valid_moves(player)]
    /\ UNCHANGED <<state, move_history, gui>>
    /\ prev' = state

call_get_shortest_path_length(start, player) ==
    /\ query_time
    /\ last_call' = [op |-> "get_shortest_path_length", ok |-> TRUE,
                     result |-> get_shortest_path_length(walls, start, player)]
    /\ UNCHANGED <<state, move_history, gui>>
    /\ prev' = state

call_can_place_wall(wall) ==
    /\ query_time
    /\ \E r \in {can_place_wall_run(canonical_game, canonical_heap, wall, <<"test">>)} :
           /\ last_call' = [op |-> "can_place_wall", ok |-> TRUE, result |-> r.result]
           /\ returns(r)

call_get_all_valid_walls ==
    /\ query_time
    /\ \E r \in {IF get_current_player_walls <= 0
                 THEN [result |-> <<>>, game |-> canonical_game, heap |-> canonical_heap]
                 ELSE can_place_wall_loop(canonical_game, canonical_heap,
                                          wall_slots(BoardSize - 1), 1, <<>>)} :
           /\ last_call' = [op |-> "get_all_valid_walls", ok |-> TRUE, result |-> r.result]
           /\ returns(r)

call_get_strategic_walls(player) ==
    /\ query_time
    /\ \E r \in {can_place_wall_loop(canonical_game, canonical_heap,
                                     strategic_slots(IF player = PLAYER1 THEN player2_pos
                                                     ELSE player1_pos), 1, <<>>)} :
           /\ last_call' = [op |-> "_get_strategic_walls", ok |-> TRUE, result |-> r.result]
           /\ returns(r)

NextReads ==
    \/ Next
    \/ \E player \in Player : call_get_valid_moves(player)
    \/ \E start \in (0 .. BoardSize - 1) \X (0 .. BoardSize - 1) : \E player \in Player :
           call_get_shortest_path_length(start, player)
    \/ \E wall \in InputWall : call_can_place_wall(wall)
    \/ call_get_all_valid_walls
    \/ \E player \in Player : call_get_strategic_walls(player)

SpecReads == Init /\ [][NextReads]_vars


(* ======================================================================= *)
(* Properties                                                              *)
(* ======================================================================= *)

(* ---------------- notions the properties are stated in ---------------- *)
Cells == (0 .. BoardSize - 1) \X (0 .. BoardSize - 1)

Adjacent(a, b) == abs(a[1] - b[1]) + abs(a[2] - b[2]) = 1

(* The edges a wall covers: a Horizontal wall anchored at (r, c) lies      *)
(* between rows r and r+1 over columns c and c+1, a Vertical wall anchored *)
(* at (r, c) lies between columns c and c+1 over rows r and r+1.           *)
Covers(w, a, b) ==
    IF w.orientation = HORIZONTAL
    THEN /\ a[2] = b[2]
         /\ (a[2] = w.col \/ a[2] = w.col + 1)
         /\ \/ a[1] = w.row /\ b[1] = w.row + 1
            \/ b[1] = w.row /\ a[1] = w.row + 1
    ELSE /\ a[1] = b[1]
         /\ (a[1] = w.row \/ a[1] = w.row + 1)
         /\ \/ a[2] = w.col /\ b[2] = w.col + 1
            \/ b[2] = w.col /\ a[2] = w.col + 1

EdgeOpen(W, a, b) == Adjacent(a, b) /\ ~\E w \in W : Covers(w, a, b)

Around(c) ==
    {<<c[1] - 1, c[2]>>, <<c[1] + 1, c[2]>>, <<c[1], c[2] - 1>>, <<c[1], c[2] + 1>>} \cap Cells

(* a row-goal cell is joined to the cells S by open edges: S is grown from *)
(* its frontier F until the row is met or nothing new is found             *)
RECURSIVE Joined(_, _, _, _)
Joined(W, S, F, goal) ==
    IF \E f \in F : f[1] = goal THEN TRUE
    ELSE LET T == {c \in UNION {Around(f) : f \in F} :
                      c \notin S /\ \E f \in F : EdgeOpen(W, f, c)}
         IN IF T = {} THEN FALSE ELSE Joined(W, S \cup T, T, goal)

(* a wall-free 4-adjacency path leads from pos to the goal row of player *)
HasPath(W, pos, player) ==
    Joined(W, {pos}, {pos}, IF player = PLAYER1 THEN 0 ELSE BoardSize - 1)

Overlaps(a, b) ==
    /\ a.orientation = b.orientation
    /\ \/ a.orientation = HORIZONTAL /\ a.row = b.row /\ abs(a.col - b.col) <= 1
       \/ a.orientation = VERTICAL /\ a.col = b.col /\ abs(a.row - b.row) <= 1

Crosses(a, b) ==
    a.orientation # b.orientation /\ a.row = b.row /\ a.col = b.col

InRange(w) ==
    w.row \in 0 .. BoardSize - 2 /\ w.col \in 0 .. BoardSize - 2

Accepted(op) == last_call = Call(op, TRUE)
Rejected(op) == last_call = Call(op, FALSE)

(* a free slot whose wall would cut a pawn off from its goal row *)
Stranding(w) ==
    /\ InRange(w)
    /\ \A e \in walls : ~Overlaps(w, e) /\ ~Crosses(w, e)
    /\ \/ ~HasPath(walls \cup {w}, player1_pos, PLAYER1)
       \/ ~HasPath(walls \cup {w}, player2_pos, PLAYER2)

(* ---------------- C1 ---------------- *)
(* C1: in every reachable state Player1 has a wall-free path from its      *)
(* position to row 0 and Player2 has one to row BoardSize-1.               *)
C1_Connectivity ==
    /\ HasPath(walls, player1_pos, PLAYER1)
    /\ HasPath(walls, player2_pos, PLAYER2)

(* a wall has just been accepted in a state where another free slot would  *)
(* strand a pawn                                                           *)
C1_Witness ==
    /\ Accepted("place_wall")
    /\ \E w \in InputWall : Stranding(w)

(* ---------------- C2 ---------------- *)
(* C2: once game_over is true every move_player and every place_wall call  *)
(* is rejected.                                                            *)
C2_TerminalRejects ==
    [][(game_over /\ last_call'.op \in {"move_player", "place_wall"})
         => ~last_call'.ok]_vars

(* ---------------- C3 ---------------- *)
(* C3: can_place_wall(wall) is true exactly when the current player has a  *)
(* wall left, the anchor is in range, the wall is not placed already, it   *)
(* overlaps or crosses no placed wall, and with it both pawns keep a path  *)
(* to their goal rows.  Stated of every wall a caller may pass, in every   *)
(* state in which the engine takes calls.                                  *)
C3_CanPlaceWallIff ==
    Len(move_history) < MaxHist =>
        \A w \in InputWall :
            can_place_wall(w) <=>
                /\ (IF current_player = PLAYER1 THEN player1_walls ELSE player2_walls) > 0
                /\ InRange(w)
                /\ w \notin walls
                /\ \A e \in walls : ~Overlaps(w, e) /\ ~Crosses(w, e)
                /\ HasPath(walls \cup {w}, player1_pos, PLAYER1)
                /\ HasPath(walls \cup {w}, player2_pos, PLAYER2)

(* the player to move has a wall left and a free slot would strand a pawn: *)
(* can_place_wall refuses it, and a place_wall call has just been refused  *)
C3_Witness ==
    /\ Rejected("place_wall")
    /\ get_current_player_walls > 0
    /\ \E w \in InputWall : Stranding(w) /\ ~can_place_wall(w)

(* ---------------- C4 ---------------- *)
(* C4: a call that returns false leaves every state field and the undo     *)
(* history as they were.                                                   *)
C4_RejectedIsNoOp ==
    [][~last_call'.ok => (state' = state /\ move_history' = move_history)]_vars

(* a place_wall call was refused although walls are placed and the caller  *)
(* has a wall left                                                         *)
C4_Witness ==
    /\ Rejected("place_wall")
    /\ walls # {}
    /\ move_history # <<>>
    /\ get_current_player_walls > 0

(* ---------------- C5 ---------------- *)
(* C5: game_over is true exactly when Player1 stands on row 0 or Player2   *)
(* stands on row BoardSize-1.                                              *)
C5_TerminalIffGoal ==
    game_over <=> (player1_pos[1] = 0 \/ player2_pos[1] = BoardSize - 1)

(* ---------------- C6 ---------------- *)
(* C6: once winner holds a player, no move_player or place_wall call       *)
(* changes it.                                                             *)
C6_WinnerSetOnce ==
    [][(winner # None /\ last_call'.op \in {"move_player", "place_wall"})
         => winner' = winner]_vars

(* ---------------- C7 ---------------- *)
(* C7: no two distinct placed walls overlap or cross.                      *)
C7_NoOverlapNoCross ==
    \A a \in walls : \A b \in walls :
        a # b => (~Overlaps(a, b) /\ ~Crosses(a, b))

(* two walls stand on the board, the second just accepted *)
C7_Witness ==
    /\ Accepted("place_wall")
    /\ Cardinality(walls) >= 2

(* ---------------- C8 ---------------- *)
PlacedBy(player) ==
    {move_history[i].wall :
        i \in {j \in 1 .. Len(move_history) :
                 move_history[j].kind = "wall" /\ move_history[j].player = player}}
    \cap walls

(* C8: each counter is >= 0 and equals the initial budget minus the number *)
(* of walls on the board that the player placed, so the size of the wall   *)
(* set is twice the budget minus both counters.                            *)
C8_WallCounters ==
    /\ player1_walls >= 0
    /\ player2_walls >= 0
    /\ player1_walls = WallBudget - Cardinality(PlacedBy(PLAYER1))
    /\ player2_walls = WallBudget - Cardinality(PlacedBy(PLAYER2))
    /\ Cardinality(walls) = 2 * WallBudget - player1_walls - player2_walls

(* a wall placement was undone while another wall stays on the board *)
C8_Witness ==
    /\ Accepted("undo_move")
    /\ walls # {}
    /\ player1_walls # player2_walls

(* ---------------- C9 ---------------- *)
(* C9: an accepted place_wall followed by undo_move yields the state       *)
(* before the place_wall, in every field.                                  *)
C9_PlaceUndoRoundTrip ==
    [][(Accepted("place_wall") /\ last_call' = Call("undo_move", TRUE))
         => state' = prev]_vars

(* ---------------- C10 ---------------- *)
(* C10: undo_move reverses the most recent accepted action: a move puts    *)
(* the mover back on its previous cell and touches nothing else; a wall    *)
(* record removes that wall and gives the placing player one wall back;    *)
(* current_player becomes the player of the undone action and              *)
(* game_over/winner are cleared.                                           *)
C10_UndoReverses ==
    [][last_call' = Call("undo_move", TRUE) =>
         LET rec == move_history[Len(move_history)]
         IN /\ move_history # <<>>
            /\ move_history' = SubSeq(move_history, 1, Len(move_history) - 1)
            /\ current_player' = rec.player
            /\ game_over' = FALSE
            /\ winner' = None
            /\ rec.kind = "move" =>
                 /\ (IF rec.player = PLAYER1 THEN player1_pos' ELSE player2_pos') = rec.old_pos
                 /\ (IF rec.player = PLAYER1 THEN player2_pos' = player2_pos
                                             ELSE player1_pos' = player1_pos)
                 /\ UNCHANGED <<walls, player1_walls, player2_walls>>
            /\ rec.kind = "wall" =>
                 /\ rec.wall \in walls
                 /\ walls' = walls \ {rec.wall}
                 /\ (IF rec.player = PLAYER1 THEN player1_walls' ELSE player2_walls')
                      = (IF rec.player = PLAYER1 THEN player1_walls ELSE player2_walls) + 1
                 /\ (IF rec.player = PLAYER1 THEN player2_walls' = player2_walls
                                             ELSE player1_walls' = player1_walls)
                 /\ UNCHANGED <<player1_pos, player2_pos>>
            (* undone right after the action: the fields are those before it *)
            /\ (Accepted("move_player") \/ Accepted("place_wall")) =>
                 /\ <<player1_pos', player2_pos', player1_walls', player2_walls',
                      walls', current_player'>>
                    = <<prev[1], prev[2], prev[3], prev[4], prev[5], prev[6]>>
       ]_vars

(* an action has just been undone, leaving a history that holds a wall    *)
(* record and a pawn away from its starting cell                           *)
C10_Witness ==
    /\ Accepted("undo_move")
    /\ move_history # <<>>
    /\ walls # {}
    /\ player1_pos # StartPos1

(* ---------------- C11 ---------------- *)
(* C11: every accepted move_player or place_wall hands the turn to the     *)
(* other player, also when the move wins; every rejected call leaves the   *)
(* turn where it was; the recorded actions alternate between the players.  *)
C11_StrictAlternation ==
    [][/\ (last_call'.op \in {"move_player", "place_wall"} /\ last_call'.ok)
            => (current_player' \in Player /\ current_player' # current_player)
       /\ ~last_call'.ok => current_player' = current_player
       /\ \A i \in 1 .. Len(move_history') - 1 :
              move_history'[i].player # move_history'[i + 1].player
       /\ move_history' # <<>> =>
              move_history'[Len(move_history')].player # current_player'
      ]_vars

(* a winning move has just been accepted: the winner is no longer to move *)
C11_Witness ==
    /\ Accepted("move_player")
    /\ game_over
    /\ winner \in Player
    /\ prev[7] = FALSE
    /\ winner # current_player

(* ---------------- C12 ---------------- *)
(* C12: an accepted move_player from a state that is not game_over sets    *)
(* game_over exactly when the mover now stands on its own goal row, and    *)
(* then winner is the mover; otherwise game_over stays false and winner    *)
(* unset.                                                                  *)
C12_WinDetection ==
    [][(~game_over /\ last_call' = Call("move_player", TRUE)) =>
         LET mover == current_player
             onGoal == IF mover = PLAYER1 THEN player1_pos'[1] = 0
                       ELSE player2_pos'[1] = BoardSize - 1
         IN /\ game_over' <=> onGoal
            /\ onGoal => winner' = mover
            /\ ~onGoal => winner' = None
      ]_vars

(* ---------------- notions for the move generator ---------------- *)
PosOf(player) == IF player = PLAYER1 THEN player1_pos ELSE player2_pos
OppOf(player) == IF player = PLAYER1 THEN player2_pos ELSE player1_pos

Cardinal == {<<-1, 0>>, <<1, 0>>, <<0, -1>>, <<0, 1>>}

Plus(c, d) == <<c[1] + d[1], c[2] + d[2]>>

(* the two cells beside c across the axis of direction d *)
Sides(c, d) ==
    IF d[1] = 0 THEN {<<c[1] - 1, c[2]>>, <<c[1] + 1, c[2]>>}
    ELSE {<<c[1], c[2] - 1>>, <<c[1], c[2] + 1>>}

(* the opponent stands next to player in direction d with the edge open *)
Facing(player, d) ==
    /\ OppOf(player) = Plus(PosOf(player), d)
    /\ EdgeOpen(walls, PosOf(player), OppOf(player))

(* the cell beyond the opponent is on the board and open from its cell *)
JumpFree(player, d) ==
    /\ Plus(OppOf(player), d) \in Cells
    /\ EdgeOpen(walls, OppOf(player), Plus(OppOf(player), d))

(* ---------------- C13 ---------------- *)
(* C13: for either player get_valid_moves holds no position off the       *)
(* board, never the opponent's cell, and no position twice.                *)
C13_ValidMovesSafe ==
    \A player \in Player :
        LET moves == get_valid_moves(player)
        IN /\ \A i \in 1 .. Len(moves) : moves[i] \in Cells
           /\ \A i \in 1 .. Len(moves) : moves[i] # OppOf(player)
           /\ \A i \in 1 .. Len(moves) : \A j \in 1 .. Len(moves) :
                  i # j => moves[i] # moves[j]

(* a pawn faces the opponent with the jump blocked and one of the two     *)
(* side-step cells off the board                                           *)
C13_Witness ==
    \E player \in Player : \E d \in Cardinal :
        /\ Facing(player, d)
        /\ ~JumpFree(player, d)
        /\ \E s \in Sides(OppOf(player), d) : s \notin Cells

(* ---------------- C14 ---------------- *)
(* C14 as stated: each of the four directions adds at most one position,   *)
(* so get_valid_moves never has more than four.                            *)
C14_AtMostOnePerDirection ==
    \A player \in Player :
        /\ \A i \in 1 .. 4 :
               Len(moves_in_direction(walls, PosOf(player), OppOf(player), directions[i])) <= 1
        /\ Len(get_valid_moves(player)) <= 4

(* C14 amended: a direction adds at most one position, except the          *)
(* direction in which the opponent is adjacent with the straight jump      *)
(* blocked or off the board, which adds at most the two side-step cells;   *)
(* so get_valid_moves never has more than five positions.                  *)
C14_AtMostOneOrSideSteps ==
    \A player \in Player :
        /\ \A i \in 1 .. 4 :
               LET n == Len(moves_in_direction(walls, PosOf(player), OppOf(player),
                                               directions[i]))
               IN IF Facing(player, directions[i]) /\ ~JumpFree(player, directions[i])
                  THEN n <= 2
                  ELSE n <= 1
        /\ Len(get_valid_moves(player)) <= 5

(* five destinations: three plain steps and both side-steps *)
C14_Witness ==
    \E player \in Player : Len(get_valid_moves(player)) = 5

(* ---------------- C15 ---------------- *)
(* C15: when the opponent is adjacent in direction d with no wall between  *)
(* and the cell beyond is on the board with no wall before it,             *)
(* get_valid_moves holds that cell two steps away, not the opponent's      *)
(* cell, and no cell beside the opponent.                                  *)
C15_StraightJump ==
    \A player \in Player : \A d \in Cardinal :
        (Facing(player, d) /\ JumpFree(player, d)) =>
            LET moves == SeqToSet(get_valid_moves(player))
            IN /\ Plus(OppOf(player), d) \in moves
               /\ OppOf(player) \notin moves
               /\ Sides(OppOf(player), d) \cap moves = {}

(* a straight jump is on offer while walls stand on the board *)
C15_Witness ==
    /\ walls # {}
    /\ \E player \in Player : \E d \in Cardinal :
           Facing(player, d) /\ JumpFree(player, d)

(* ---------------- C16 ---------------- *)
(* C16: when the opponent is adjacent in direction d with no wall between  *)
(* and the cell beyond is off the board or walled off, get_valid_moves     *)
(* holds exactly those of the two cells beside the opponent that are on    *)
(* the board and open from the opponent's cell, and not the jump cell.     *)
C16_SideStep ==
    \A player \in Player : \A d \in Cardinal :
        (Facing(player, d) /\ ~JumpFree(player, d)) =>
            LET moves == SeqToSet(get_valid_moves(player))
            IN /\ \A s \in Sides(OppOf(player), d) :
                      s \in moves <=> (s \in Cells /\ EdgeOpen(walls, OppOf(player), s))
               /\ Plus(OppOf(player), d) \notin moves

(* the jump is blocked by a wall, not by the edge of the board, and a      *)
(* side-step is on offer                                                   *)
C16_Witness ==
    \E player \in Player : \E d \in Cardinal :
        /\ Facing(player, d)
        /\ Plus(OppOf(player), d) \in Cells
        /\ ~EdgeOpen(walls, OppOf(player), Plus(OppOf(player), d))
        /\ \E s \in Sides(OppOf(player), d) :
               s \in Cells /\ s \in SeqToSet(get_valid_moves(player))

(* ---------------- C17 ---------------- *)
(* C17: an accepted place_wall takes exactly one wall from the mover's     *)
(* counter, adds exactly the placed wall to the wall set and leaves the    *)
(* opponent's counter alone; an accepted move_player changes neither       *)
(* counter nor the wall set.                                               *)
C17_WallFrame ==
    [][/\ last_call' = Call("place_wall", TRUE) =>
            LET rec == move_history'[Len(move_history')]
            IN /\ rec.kind = "wall"
               /\ rec.wall \notin walls
               /\ walls' = walls \cup {rec.wall}
               /\ Cardinality(walls') = Cardinality(walls) + 1
               /\ IF current_player = PLAYER1
                  THEN player1_walls' = player1_walls - 1 /\ player2_walls' = player2_walls
                  ELSE player2_walls' = player2_walls - 1 /\ player1_walls' = player1_walls
       /\ last_call' = Call("move_player", TRUE) =>
            /\ walls' = walls
            /\ player1_walls' = player1_walls
            /\ player2_walls' = player2_walls
      ]_vars

(* Player2 has just placed its wall and Player1 still holds its own *)
C17_Witness ==
    /\ Accepted("place_wall")
    /\ current_player = PLAYER1
    /\ player2_walls = WallBudget - 1
    /\ player1_walls = WallBudget
    /\ Cardinality(walls) = 1

(* ---------------- C18 ---------------- *)
(* C18: an accepted place_wall leaves both pawn positions, game_over and   *)
(* winner as they were.                                                    *)
C18_WallNeverWins ==
    [][last_call' = Call("place_wall", TRUE) =>
         /\ player1_pos' = player1_pos
         /\ player2_pos' = player2_pos
         /\ game_over' = game_over
         /\ winner' = winner
      ]_vars

(* a wall has just been accepted in a running game, the pawns off their    *)
(* starting cells                                                          *)
C18_Witness ==
    /\ Accepted("place_wall")
    /\ ~game_over
    /\ winner = None
    /\ player1_pos # StartPos1
    /\ player2_pos # StartPos2

(* ---------------- C19 ---------------- *)
(* the least number of wall-free steps from the cells S to row goal, as a  *)
(* set: S is grown one step at a time from its frontier F, k steps so far; *)
(* {k} when the row is first met, {} when nothing new is found             *)
RECURSIVE LeastSteps(_, _, _, _, _)
LeastSteps(W, S, F, goal, k) ==
    IF \E f \in F : f[1] = goal THEN {k}
    ELSE LET T == {c \in UNION {Around(f) : f \in F} :
                      c \notin S /\ \E f \in F : EdgeOpen(W, f, c)}
         IN IF T = {} THEN {} ELSE LeastSteps(W, S \cup T, T, goal, k + 1)

(* C19: for every cell and player get_shortest_path_length is the least    *)
(* number of wall-free steps from the cell to the player's goal row, 0 on  *)
(* the goal row itself, and infinite exactly when no path exists.  Stated  *)
(* where the engine takes calls and the wall set is new, at the start and  *)
(* right after a wall went up: the result depends on nothing else.         *)
C19_ShortestPathLength ==
    Len(move_history) < MaxHist /\ (walls = {} \/ Accepted("place_wall")) =>
        \A pos \in Cells : \A player \in Player :
            \A goal \in {IF player = PLAYER1 THEN 0 ELSE BoardSize - 1} :
            \A least \in {LeastSteps(walls, {pos}, {pos}, goal, 0)} :
            \A r \in {get_shortest_path_length(walls, pos, player)} :
                /\ pos[1] = goal => r = 0
                /\ r = inf <=> least = {}
                /\ r # inf => least = {r}

(* the wall just placed shuts one cell off from a goal row, and the walls   *)
(* force a detour from another                                             *)
C19_Witness ==
    /\ Len(move_history) < MaxHist
    /\ Accepted("place_wall")
    /\ \E pos \in Cells : \E player \in Player :
           get_shortest_path_length(walls, pos, player) = inf
    /\ \E pos \in Cells :
           LET r == get_shortest_path_length(walls, pos, PLAYER1)
           IN r # inf /\ r > pos[1]

(* ---------------- C20 ---------------- *)
(* C20: for adjacent cells A and B is_wall_between(A, B) is true exactly   *)
(* when a placed wall covers the edge between them (a Horizontal wall at   *)
(* (r, c) the two vertical steps between rows r and r+1 in columns c and   *)
(* c+1, a Vertical wall at (r, c) the two horizontal steps between columns *)
(* c and c+1 in rows r and r+1), and the same for (B, A).                  *)
C20_WallBetween ==
    \A a \in Cells : \A b \in Around(a) :
        /\ is_wall_between(walls, a, b) <=> \E w \in walls : Covers(w, a, b)
        /\ is_wall_between(walls, a, b) <=> is_wall_between(walls, b, a)

(* a Horizontal and a Vertical wall stand on the board, each closing edges *)
C20_Witness ==
    /\ \E w \in walls : w.orientation = HORIZONTAL
    /\ \E w \in walls : w.orientation = VERTICAL
    /\ \E a \in Cells : \E b \in Around(a) :
           a[1] = b[1] /\ is_wall_between(walls, a, b)
    /\ \E a \in Cells : \E b \in Around(a) :
           a[2] = b[2] /\ is_wall_between(walls, a, b)

(* ---------------- C21 ---------------- *)
Slots == [row : 0 .. BoardSize - 2, col : 0 .. BoardSize - 2, orientation : WallOrientation]

(* C21: get_all_valid_walls returns, each exactly once, precisely the      *)
(* in-range slots for which can_place_wall is true in the current state,   *)
(* and the empty sequence when the player to move has no wall left.        *)
(* Stated in every state an accepted call has left and in which the engine *)
(* takes calls (a refused call leaves the state it found).                 *)
C21_AllValidWalls ==
    (Len(move_history) < MaxHist /\ last_call.ok) =>
        \A valid_walls \in {get_all_valid_walls} :
            /\ \A i, j \in 1 .. Len(valid_walls) : valid_walls[i] = valid_walls[j] => i = j
            /\ SeqToSet(valid_walls) = {w \in Slots : can_place_wall(w)}
            /\ (IF current_player = PLAYER1 THEN player1_walls ELSE player2_walls) = 0
                   => valid_walls = <<>>

(* the player to move has a wall left, a wall stands on the board, and     *)
(* some slots are returned while others are refused                        *)
C21_Witness ==
    /\ Len(move_history) < MaxHist
    /\ last_call.ok
    /\ walls # {}
    /\ get_all_valid_walls # <<>>
    /\ Len(get_all_valid_walls) < Cardinality(Slots) - 1

(* ---------------- C24 ---------------- *)
(* C24: on the fresh board (Player1 in the middle of the last row, Player2 *)
(* in the middle of row 0, no wall placed) get_valid_moves(Player1) is the *)
(* cell ahead and the two cells beside Player1, and get_valid_moves of     *)
(* Player2 symmetrically; on the 9x9 board {(7,4), (8,3), (8,5)} and       *)
(* {(1,4), (0,3), (0,5)}.                                                  *)
C24_FreshBoardMoves ==
    (/\ player1_pos = <<BoardSize - 1, BoardSize \div 2>>
     /\ player2_pos = <<0, BoardSize \div 2>>
     /\ walls = {})
    => /\ SeqToSet(get_valid_moves(PLAYER1)) =
              {<<BoardSize - 2, BoardSize \div 2>>,
               <<BoardSize - 1, BoardSize \div 2 - 1>>,
               <<BoardSize - 1, BoardSize \div 2 + 1>>}
       /\ SeqToSet(get_valid_moves(PLAYER2)) =
              {<<1, BoardSize \div 2>>,
               <<0, BoardSize \div 2 - 1>>,
               <<0, BoardSize \div 2 + 1>>}
       /\ Len(get_valid_moves(PLAYER1)) = 3
       /\ Len(get_valid_moves(PLAYER2)) = 3

(* the fresh board, both budgets whole, back after the first action of a   *)
(* game was undone                                                         *)
C24_Witness ==
    /\ Accepted("undo_move")
    /\ move_history = <<>>
    /\ player1_pos = <<BoardSize - 1, BoardSize \div 2>>
    /\ player2_pos = <<0, BoardSize \div 2>>
    /\ player1_walls = WallBudget /\ player2_walls = WallBudget
    /\ walls = {}

(* ---------------- C25 ---------------- *)
(* C25: in every reachable state both pawns stand on the board:            *)
(* 0 <= row < BoardSize and 0 <= col < BoardSize.                          *)
C25_PawnsOnBoard ==
    /\ player1_pos \in Cells
    /\ player2_pos \in Cells

(* after an accepted move the pawns stand in opposite edge columns *)
C25_Witness ==
    /\ Accepted("move_player")
    /\ player1_pos[2] = 0
    /\ player2_pos[2] = BoardSize - 1

(* ---------------- C26 ---------------- *)
(* C26: reset, from any state, leaves the canonical start (pawns in the    *)
(* middle of their home rows, full budgets, no wall, Player1 to move, not  *)
(* over, no winner) and an empty undo history, so that an undo_move right  *)
(* after it is refused.                                                    *)
C26_ResetRestores ==
    [][/\ last_call'.op = "reset" =>
            /\ player1_pos' = <<BoardSize - 1, BoardSize \div 2>>
            /\ player2_pos' = <<0, BoardSize \div 2>>
            /\ player1_walls' = WallBudget /\ player2_walls' = WallBudget
            /\ walls' = {}
            /\ current_player' = PLAYER1
            /\ ~game_over' /\ winner' = None
            /\ move_history' = <<>>
       /\ (last_call.op = "reset" /\ last_call'.op = "undo_move") =>
            ~last_call'.ok /\ state' = state]_vars

(* reset has just been called *)
C26_Witness ==
    /\ Accepted("reset")
    /\ move_history = <<>>

(* ---------------- C27 ---------------- *)
(* C27: in every reachable state that is not over the player to move has   *)
(* a legal pawn move: get_valid_moves(current_player) is not empty.        *)
C27_MoverCanMove ==
    ~game_over => get_valid_moves(current_player) # <<>>

(* a game not over, with walls placed and the opponent next to the mover,  *)
(* in which the mover has a single legal move                              *)
C27_Witness ==
    /\ ~game_over
    /\ walls # {}
    /\ Adjacent(player1_pos, player2_pos)
    /\ Len(get_valid_moves(current_player)) = 1

(* ---------------- C22 ---------------- *)
AiCalled == last_call.op = "get_best_move"

(* C22: get_best_move, at any difficulty, leaves the engine's game as it   *)
(* found it (positions, wall set, counters, player to move, game_over,     *)
(* winner and undo history), and every game the search explored had a wall *)
(* set of its own, shared neither with the engine's game nor with another  *)
(* branch.                                                                 *)
C22_SearchLeavesGame ==
    [][last_call'.op = "get_best_move" =>
           /\ state' = state
           /\ move_history' = move_history
           /\ last_call'.fresh]_vars

(* a search has returned in a game with a wall on the board in which the   *)
(* mover had walls to try: wall placements were explored on copies         *)
C22_Witness ==
    /\ AiCalled
    /\ last_call.difficulty # "easy"
    /\ walls # {}
    /\ get_current_player_walls > 0
    /\ strategic_walls(canonical_game, canonical_heap, last_call.player) # <<>>

(* ---------------- C23 ---------------- *)
(* Player1 is to move, one legal move puts it on row 0, and a searcher     *)
(* configured for Player1 has just returned                                *)
WinInOne ==
    /\ AiCalled
    /\ last_call.player = PLAYER1
    /\ current_player = PLAYER1
    /\ \E m \in SeqToSet(get_valid_moves(PLAYER1)) : m[1] = 0

ReturnsWin == last_call.kind = "move" /\ last_call.data[1] = 0

C28_ReturnsLegalAction ==
    (AiCalled /\ ~game_over /\ current_player = last_call.player) =>
        /\ last_call.kind \in {"move", "wall"}
        /\ last_call.kind = "move" =>
               last_call.data \in SeqToSet(get_valid_moves(current_player))
        /\ last_call.kind = "wall" => can_place_wall(last_call.data)

(* a search has returned a wall for the player it is configured for, who   *)
(* is to move in a game not over                                           *)
C28_Witness ==
    /\ AiCalled /\ ~game_over /\ current_player = last_call.player
    /\ last_call.difficulty # "easy"
    /\ last_call.kind = "wall"

(* ---------------- C29 ---------------- *)
MaxOf(S) == CHOOSE m \in {CHOOSE v \in T : \A u \in T : v >= u : T \in {S}} : TRUE
MinOf(S) == CHOOSE m \in {CHOOSE v \in T : \A u \in T : v <= u : T \in {S}} : TRUE

(* the minimax value of a game without pruning: the evaluator at depth 0,  *)
(* the terminal scores, and otherwise the best of the values of all the    *)
(* actions the node recurses over                                          *)
RECURSIVE PlainValue(_, _, _, _, _)
PlainValue(game, heap, depth, is_maximizing, player) ==
    IF game.game_over
    THEN IF game.winner = player THEN 1000 + depth ELSE -1000 - depth
    ELSE IF depth = 0 THEN _evaluate(game, heap, player)
    ELSE CHOOSE value \in
        {IF values = {} THEN (IF is_maximizing THEN -float_inf ELSE float_inf)
         ELSE IF is_maximizing THEN MaxOf(values) ELSE MinOf(values)
         : values \in
            {{PlainValue(move_player_on(game, heap, a.data), heap, depth - 1,
                         ~is_maximizing, player)
              : a \in SeqToSet(searched_actions(game, heap))}}} : TRUE

(* the root's actions in its order, moves before walls, with their values  *)
PlainRootValues(player, max_depth) ==
    LET moves == get_valid_moves(current_player)
        wall_list == IF get_current_player_walls > 0
                     THEN strategic_walls(canonical_game, canonical_heap, player)
                     ELSE <<>>
    IN [i \in 1 .. Len(moves) + Len(wall_list) |->
           IF i <= Len(moves)
           THEN [kind |-> "move", data |-> moves[i],
                 value |-> PlainValue(move_player_on(canonical_game, canonical_heap, moves[i]),
                                      canonical_heap, max_depth - 1, FALSE, player)]
           ELSE [kind |-> "wall", data |-> wall_list[i - Len(moves)],
                 value |-> CHOOSE v \in
                     {PlainValue(p.game, p.heap, max_depth - 1, FALSE, player)
                      : p \in {place_wall_on(canonical_game, canonical_heap,
                                             wall_list[i - Len(moves)])}} : TRUE]]

(* the first action of the best value is the one an un-pruned search       *)
(* returns, ties going to the action seen first                            *)
PlainDecisionIs(kind, data, player, max_depth) ==
    \A scored \in {PlainRootValues(player, max_depth)} :
        \E i \in 1 .. Len(scored) :
            /\ scored[i].kind = kind
            /\ scored[i].data = data
            /\ \A j \in 1 .. Len(scored) : scored[j].value <= scored[i].value
            /\ \A j \in 1 .. i - 1 : scored[j].value < scored[i].value

(* C29: alpha-beta pruning never changes the decision: the action the      *)
(* pruned search returns is the one an un-pruned minimax over the same     *)
(* action sets, the same evaluator and the same first-seen tie-break       *)
(* returns.                                                                *)
C29_PruningKeepsDecision ==
    (AiCalled /\ last_call.branch = "search" /\ last_call.kind # "error") =>
        PlainDecisionIs(last_call.kind, last_call.data, last_call.player,
                        _get_depth_for_difficulty(last_call.difficulty))

(* the search made for the second move, with the first move's value as     *)
(* alpha, was cut short: it returned a bound, not the second move's value  *)
CutShort(player, max_depth) ==
    \A moves \in {get_valid_moves(current_player)} :
        /\ Len(moves) > 1
        /\ \A first \in {PlainValue(move_player_on(canonical_game, canonical_heap, moves[1]),
                                     canonical_heap, max_depth - 1, FALSE, player)} :
           \A c \in {copy(canonical_game, canonical_heap, <<"move", 2>>)} :
               _minimax(move_player_on(c.game, c.heap, moves[2]), c.heap,
                        max_depth - 1, first, float_inf, FALSE, player,
                        <<"move", 2>>).score
               # PlainValue(move_player_on(canonical_game, canonical_heap, moves[2]),
                            canonical_heap, max_depth - 1, FALSE, player)

(* a hard search has returned in a game not over where the mover had walls *)
(* to compare and the search of the second move was cut short              *)
C29_Witness ==
    /\ AiCalled
    /\ last_call.difficulty = "hard"
    /\ ~game_over
    /\ get_current_player_walls > 0
    /\ CutShort(last_call.player, 3)

(* ---------------- C30 ---------------- *)
(* the wall candidates of the player to move in a searched game: the walls *)
(* it may place whose anchor is within two cells, in rows and in columns,  *)
(* of the other player's pawn                                              *)
WallCandidates(game, heap) ==
    LET opponent_pos == IF game.current_player = PLAYER1
                        THEN game.player2_pos ELSE game.player1_pos
        near(a, b) == a - b <= 2 /\ b - a <= 2
    IN {w \in Slots : /\ near(w.row, opponent_pos[1])
                      /\ near(w.col, opponent_pos[2])
                      /\ can_place_wall_on(game, heap, w)}

(* the games one move below the root that are not over, with depth left    *)
(* to search and a wall in the mover's hand                                *)
InnerNodes(max_depth) ==
    {child \in {move_player_on(canonical_game, canonical_heap, m)
                : m \in SeqToSet(get_valid_moves(current_player))} :
        /\ ~child.game_over
        /\ max_depth - 1 > 0
        /\ get_current_player_walls_on(child) > 0}

(* C30: at every search node that is not terminal and has depth left, not  *)
(* only at the root, the search recurses over the mover's whole action     *)
(* set: every legal move and, when the mover has walls left, the filtered  *)
(* wall candidates.  Stated of the nodes one move below the root.          *)
C30_InnerNodesSearchWalls ==
    (AiCalled /\ last_call.branch = "search") =>
        \A child \in InnerNodes(_get_depth_for_difficulty(last_call.difficulty)) :
            \A actions \in {searched_actions(child, canonical_heap)} :
                /\ \A m \in SeqToSet(get_valid_moves_on(child, canonical_heap)) :
                       \E i \in DOMAIN actions :
                           actions[i].kind = "move" /\ actions[i].data = m
                /\ \A w \in WallCandidates(child, canonical_heap) :
                       \E i \in DOMAIN actions :
                           actions[i].kind = "wall" /\ actions[i].data = w

(* ---------------- C31 ---------------- *)
(* C31: the top-level selection scores every legal move in the order of    *)
(* get_valid_moves and then every wall candidate, and returns the first    *)
(* action in that order that attains the best score: the score returned is *)
(* the best of all, no action before the returned one attains it, and a    *)
(* wall is returned only with a score strictly above every move's.         *)
C31_FirstBestAction ==
    (AiCalled /\ last_call.branch = "search" /\ last_call.kind # "error") =>
        \A scored \in {PlainRootValues(last_call.player,
                                       _get_depth_for_difficulty(last_call.difficulty))} :
            /\ \A j \in 1 .. Len(scored) : scored[j].value <= last_call.score
            /\ \E i \in 1 .. Len(scored) :
                   /\ scored[i].kind = last_call.kind
                   /\ scored[i].data = last_call.data
                   /\ scored[i].value = last_call.score
                   /\ \A j \in 1 .. i - 1 : scored[j].value < last_call.score
            /\ last_call.kind = "wall" =>
                   \A j \in 1 .. Len(scored) :
                       scored[j].kind = "move" => scored[j].value < last_call.score

(* a search has returned a move although a wall candidate, scored after    *)
(* it, attains the same best score                                         *)
C31_Witness ==
    /\ AiCalled /\ last_call.branch = "search" /\ last_call.kind = "move"
    /\ \A scored \in {PlainRootValues(last_call.player,
                                      _get_depth_for_difficulty(last_call.difficulty))} :
           \E j \in 1 .. Len(scored) :
               scored[j].kind = "wall" /\ scored[j].value = last_call.score

(* ---------------- C32 ---------------- *)
(* the distance of a wall's anchor from a cell, in king's moves *)
Chebyshev(w, c) ==
    LET away(x, y) == IF x < y THEN y - x ELSE x - y
    IN IF away(w.row, c[1]) >= away(w.col, c[2])
       THEN away(w.row, c[1]) ELSE away(w.col, c[2])

ForwardProgress(player) ==
    IF player = PLAYER1 THEN BoardSize - 1 - player1_pos[1] ELSE player2_pos[1]

(* C33: in a game not over the evaluator returns, for the searched-for     *)
(* player, 10 * (opponent's shortest path - own shortest path)             *)
(* + 2 * (own walls - opponent's walls) + (center - |own column - center|) *)
(* + 2 * forward progress, where center is the board size div 2 and        *)
(* forward progress the rows advanced toward the own goal (board size - 1  *)
(* - row for Player1, row for Player2), whatever the board size.           *)
C33_EvaluatorFormula ==
    ~game_over =>
        \A player \in Player :
            LET center == BoardSize \div 2
                column == PosOf(player)[2]
                away == IF column < center THEN center - column ELSE column - center
                own_walls == IF player = PLAYER1 THEN player1_walls ELSE player2_walls
                opp_walls == IF player = PLAYER1 THEN player2_walls ELSE player1_walls
            IN _evaluate(canonical_game, canonical_heap, player)
               = 10 * (get_shortest_path_length(walls, OppOf(player), other(player))
                       - get_shortest_path_length(walls, PosOf(player), player))
                 + 2 * (own_walls - opp_walls)
                 + (center - away)
                 + 2 * ForwardProgress(player)

(* ---------------- C34 ---------------- *)
(* C34: in a game against the AI, an action the AI chose is handed to the  *)
(* engine only in a state where the player to move is Player2, the AI's    *)
(* side, and the game is not over, whatever the order of the window's      *)
(* events and frames: Restart or Menu pressed while the think timer runs   *)
(* included.                                                               *)
C34_AiActsOnItsTurn ==
    [][gui'.ai_applied => (current_player = PLAYER2 /\ ~game_over)]_vars

(* ---------------- C35 ---------------- *)
(* the state reset leaves *)
StartState == <<StartPos1, StartPos2, WallBudget, WallBudget, {}, PLAYER1, FALSE, None>>

(* C35: after any accepted moves and wall placements from reset,           *)
(* undo_move called until it returns False succeeds once for every         *)
(* accepted action not yet undone and ends in the starting state in every  *)
(* field.  Stated step by step: the history counts the accepted actions    *)
(* not yet undone (an accepted move or wall adds one record, a refused     *)
(* call none, reset empties it), undo_move succeeds exactly while the      *)
(* history holds a record and each success removes one, and whenever the   *)
(* history is empty the state is the starting state.                       *)
C35_UndoAllRestoresStart ==
    [][/\ last_call'.op \in {"move_player", "place_wall"} =>
              Len(move_history') = Len(move_history) + (IF last_call'.ok THEN 1 ELSE 0)
       /\ last_call'.op = "reset" => move_history' = <<>>
       /\ last_call'.op = "undo_move" =>
              /\ last_call'.ok <=> move_history # <<>>
              /\ Len(move_history') = Len(move_history) - (IF last_call'.ok THEN 1 ELSE 0)
       /\ move_history' = <<>> => state' = StartState
      ]_vars

(* the undo_move just accepted has taken back the last record of a game    *)
(* that was played: the history is empty, the next undo_move will return   *)
(* False, and the state is the starting state                              *)
C35_Witness ==
    /\ Accepted("undo_move")
    /\ move_history = <<>>
    /\ state = StartState

(* ---------------- C36 ---------------- *)
(* C36: in every reachable state, after any accepted moves, wall           *)
(* placements and undos, the two pawns stand on different cells.           *)
C36_PawnsApart == player1_pos # player2_pos

(* a pawn has just moved from the cell next to the other pawn over it to   *)
(* the cell beyond                                                         *)
C36_Witness ==
    /\ Accepted("move_player")
    /\ \E d \in Cardinal :
           LET mover == other(current_player)
               old_pos == IF mover = PLAYER1 THEN prev[1] ELSE prev[2]
           IN /\ OppOf(mover) = Plus(old_pos, d)
              /\ PosOf(mover) = Plus(OppOf(mover), d)

(* ---------------- C37 ---------------- *)
(* C37: every destination get_valid_moves returns is reached without       *)
(* crossing a wall: it is a cell next to the player with no wall on the    *)
(* edge between them, or a cell next to the opponent's cell with no wall   *)
(* on the edge from the player to the opponent nor on the edge from the    *)
(* opponent to the destination.                                            *)
C37_NoMoveThroughWall ==
    \A player \in Player :
        \A m \in SeqToSet(get_valid_moves(player)) :
            \/ EdgeOpen(walls, PosOf(player), m)
            \/ /\ EdgeOpen(walls, PosOf(player), OppOf(player))
               /\ EdgeOpen(walls, OppOf(player), m)

(* a player faces the opponent with no cell free beyond it; a wall closes  *)
(* one of the cells beside the opponent, and the other one is returned     *)
C37_Witness ==
    \E player \in Player : \E d \in Cardinal :
        /\ Facing(player, d)
        /\ ~JumpFree(player, d)
        /\ \E s \in Sides(OppOf(player), d) \cap Cells :
               ~EdgeOpen(walls, OppOf(player), s)
        /\ \E t \in Sides(OppOf(player), d) :
               t \in SeqToSet(get_valid_moves(player))

(* ---------------- C38 ---------------- *)
(* the places in the history that hold a wall record *)
WallRecords == {i \in 1 .. Len(move_history) : move_history[i].kind = "wall"}

(* C38: the undo history and the wall set agree: in every reachable state  *)
(* the wall set is exactly the set of the walls of the wall records in the *)
(* history, each recorded once, so that undoing a wall record finds its    *)
(* wall in the wall set.                                                   *)
C38_HistoryMatchesWalls ==
    /\ walls = {move_history[i].wall : i \in WallRecords}
    /\ \A i, j \in WallRecords : move_history[i].wall = move_history[j].wall => i = j

(* an undo has just taken back what followed a wall placement: the wall    *)
(* stands, and its record is the last of the history                       *)
C38_Witness ==
    /\ Accepted("undo_move")
    /\ move_history # <<>>
    /\ move_history[Len(move_history)].kind = "wall"
    /\ walls # {}

(* C39: the read-only queries (the valid moves of a player, whether a wall *)
(* can be placed, all walls that can be placed, a shortest path length, the *)
(* strategic wall candidates) leave every field of the game and the move   *)
(* history as they were; the wall can_place_wall tries is never left in    *)
(* the game's wall set and the game in play is the one before the call.    *)
C39_QueriesLeaveState ==
    [][last_call'.op \in Queries => (state' = state /\ move_history' = move_history)]_vars

(* can_place_wall has just answered yes for a wall it had to try on its    *)
(* test state, on a board with a wall on it, and that wall is not on it    *)
C39_Witness ==
    /\ last_call.op = "can_place_wall"
    /\ last_call.result
    /\ walls # {}
    /\ state = prev
    /\ \E wall \in InputWall : wall \notin walls /\ can_place_wall(wall)

(* C40: in a search get_best_move has run for the player whose turn it is, *)
(* every call of _minimax had is_maximizing true exactly when the          *)
(* current_player of the game it was called on was the searching player.   *)
C40_FlagFollowsMover ==
    (/\ last_call.op = "get_best_move"
     /\ last_call.branch = "search"
     /\ current_player = last_call.player)
    => \A flag \in last_call.flags : flag[1] <=> (flag[2] = last_call.player)

(* a search on the searcher's own turn that has called _minimax on games   *)
(* of both players' turns, maximizing and minimizing                       *)
C40_Witness ==
    /\ last_call.op = "get_best_move"
    /\ last_call.branch = "search"
    /\ current_player = last_call.player
    /\ ~game_over
    /\ <<TRUE, last_call.player>> \in last_call.flags
    /\ <<FALSE, other(last_call.player)>> \in last_call.flags

====
